---- MODULE Spec2Model ----
(***************************************************************************)
(* Scan orchestration of tornet_scraper: the listing (marketplace post)    *)
(* scan of app/routes/marketplace.py, the post-detail scan of              *)
(* app/routes/posts.py, the pagination partition of                        *)
(* app/scrapers/marketplace_scraper.py and the tables of                   *)
(* app/database/models.py they read and write.                             *)
(***************************************************************************)
EXTENDS Integers, Sequences, FiniteSets, TLC

VARIABLES
    pagination_scans,   \* table marketplace_pagination_scans: scan_name -> row or NoRow
    post_scans,         \* table marketplace_post_scans: id -> row or NoRow
    marketplace_posts,  \* table marketplace_posts: sequence of rows in insertion order
    detail_scans,       \* table post_detail_scans: id -> row or NoRow
    post_details,       \* table marketplace_post_details: sequence of rows in insertion order
    runs,               \* background tasks created by asyncio.create_task, in creation order
    now,                \* datetime.utcnow(); a start request moves it on
    response,           \* outcome of the last start request handled
    login,              \* the call of login_to_tor_website in progress or last returned
    containers,         \* names of the containers the Docker daemon holds
    proxies,            \* table proxies: the container_name of each row
    provision,          \* the call of create_and_start_proxy in progress, or NoRow
    proxy_response,     \* outcome of the last request to /api/proxy-gen
    profiles,           \* table bot_profiles as the login route reads it, rows in id order
    bot_login           \* the call of perform_bot_login in progress or last answered

scan_vars == <<pagination_scans, post_scans, marketplace_posts,
               detail_scans, post_details, runs, now, response>>
service_vars == <<login, containers, proxies, provision, proxy_response>>
bot_vars == <<profiles, bot_login>>
vars == <<pagination_scans, post_scans, marketplace_posts,
          detail_scans, post_details, runs, now, response,
          login, containers, proxies, provision, proxy_response,
          profiles, bot_login>>

\* ------------------------------------------------------------------------
\* Bounds of the model
\* ------------------------------------------------------------------------
MaxRuns == 2            \* background runs launched in one behaviour
MaxPage == 100          \* largest max_page submitted in SpecPagination
MaxLoginIterations == 19 \* iterations of the login loop followed in one call

\* ------------------------------------------------------------------------
\* Values
\* ------------------------------------------------------------------------
NULL == "NULL"          \* SQL NULL / Python None in a string column
NoRow == [absent |-> TRUE]  \* what .first() returns when no row matches (None)
NoDate == 0             \* SQL NULL in a DateTime column; the clock starts at 1

RUNNING == "running"
COMPLETED == "completed"
STOPPED == "stopped"
ScanStatus == {RUNNING, COMPLETED, STOPPED}

SCRAPE_MARKETPLACE == "scrape_marketplace"
SCRAPE_POST == "scrape_post"
SCRAPE_PROFILE == "scrape_profile"
BotPurpose == {SCRAPE_MARKETPLACE, SCRAPE_POST, SCRAPE_PROFILE}

\* The tables bot_profiles and apis are maintained by app/routes/bot_profile.py and
\* app/routes/manage_api.py. A scan handler reads each of them once, so what they
\* hold at the time of a request is an input of the request.
Bot(p, s) == [purpose |-> p, session |-> s]

\* Contents of bot_profiles tried, rows in id order: no bot; bots without a session; bots whose
\* session is the empty string; one bot per purpose; two bots per purpose.
BotTables ==
    { << >>,
      << Bot(SCRAPE_MARKETPLACE, NULL), Bot(SCRAPE_POST, NULL) >>,
      << Bot(SCRAPE_MARKETPLACE, ""), Bot(SCRAPE_POST, "") >>,
      << Bot(SCRAPE_MARKETPLACE, "session=c1"), Bot(SCRAPE_POST, "session=c2") >>,
      << Bot(SCRAPE_MARKETPLACE, "session=c1"), Bot(SCRAPE_POST, "session=c2"),
         Bot(SCRAPE_MARKETPLACE, "session=c3"), Bot(SCRAPE_POST, "session=c4"),
         Bot(SCRAPE_PROFILE, "session=c5") >> }

PaginationNames == {"pg1"}
PostScanNames == {"ps1"}
DetailScanNames == {"ds1"}
\* the names of SpecContention, which runs two listing scans
ContentionScanNames == {"ps1", "ps2"}
PostScanIds == 1..Cardinality(PostScanNames \cup ContentionScanNames)
DetailScanIds == 1..Cardinality(DetailScanNames)


Min(S) == CHOOSE x \in S : \A y \in S : x <= y
Max(S) == CHOOSE x \in S : \A y \in S : x >= y

\* ------------------------------------------------------------------------
\* app/scrapers/marketplace_scraper.py
\* ------------------------------------------------------------------------
batch_size == 10

\* all_urls: the page numbers max_page, max_page-1, ..., 1 (a URL is the template
\* with its page number filled in, so the page number stands for the URL)
all_urls_ascending(max_page) == [j \in 1..max_page |-> j]
all_urls(max_page) == [j \in 1..max_page |-> max_page - j + 1]

\* all_urls[i:i+batch_size] for a 0-based i
Slice(s, i, n) == [j \in 1..(IF Len(s) - i < n THEN Len(s) - i ELSE n) |-> s[i + j]]

\* The dict {f"{i//batch_size + 1}": all_urls[i:i+batch_size] for i in range(0, len, batch_size)}
\* in insertion order, as a sequence of (key, urls) items.
create_pagination_batches_never_empty(max_page) ==
    IF max_page < 1
    THEN << [key |-> "1", urls |-> << >>] >>
    ELSE [k \in 1..((max_page + batch_size - 1) \div batch_size) |->
             [key |-> ToString(k),
              urls |-> Slice(all_urls(max_page), (k - 1) * batch_size, batch_size)]]
create_pagination_batches(max_page) ==
    IF max_page < 1
    THEN << >>
    ELSE LET urls == all_urls(max_page)
             starts == {i \in 0..(Len(urls) - 1) : i % batch_size = 0}
         IN [k \in 1..Cardinality(starts) |->
                LET i == (k - 1) * batch_size
                IN [key |-> ToString((i \div batch_size) + 1),
                    urls |-> Slice(urls, i, batch_size)]]

\* ------------------------------------------------------------------------
\* Helpers shared by the handlers
\* ------------------------------------------------------------------------
Resp(op, code, detail) == [op |-> op, code |-> code, detail |-> detail]

\* rows of bot_profiles with their primary key
BotRows(bot_profiles) ==
    [i \in 1..Len(bot_profiles) |->
        [id |-> i, purpose |-> bot_profiles[i].purpose, session |-> bot_profiles[i].session]]

\* first free primary key of a table keyed 1..n: SQLite hands out max(rowid)+1
NextId(table) ==
    LET used == {i \in DOMAIN table : table[i] # NoRow}
    IN IF used = {} THEN 1 ELSE Max(used) + 1

\* ------------------------------------------------------------------------
\* The event loop of the server
\* ------------------------------------------------------------------------
\* Every route is an "async def", so its body runs on the one event loop of the process,
\* and so do the coroutines of the runs; only the batches run on executor threads.
\* perform_bot_login calls login_to_tor_website (requests, time.sleep) and create_proxy
\* calls create_and_start_proxy (subprocess.run, polling with time.sleep) without an
\* await: while either call is in progress the loop runs nothing else.
\* a call of create_proxy is in progress (provision.pc is described with the proxy routes)
Provisioning == provision.pc \notin {"idle", "answered"}

EventLoopHeld ==
    \/ login.pc = "running"
    \/ Provisioning
    \/ bot_login.pc \in {"loop", "calling"}

\* ------------------------------------------------------------------------
\* app/routes/marketplace.py: pagination scans
\* ------------------------------------------------------------------------
\* a taken scan_name is answered 400 and nothing is written
enumerate_pages(scan_name, max_page) ==
    /\ ~EventLoopHeld
    /\ pagination_scans[scan_name] = NoRow
    /\ pagination_scans' = [pagination_scans EXCEPT ![scan_name] =
           [max_page |-> max_page, batches |-> create_pagination_batches(max_page)]]
    /\ UNCHANGED <<post_scans, marketplace_posts,
                   detail_scans, post_details, runs, now, response>>
    /\ UNCHANGED service_vars
    /\ UNCHANGED bot_vars

\* a missing scan is answered 404 and nothing is written
delete_pagination_scan(scan_name) ==
    /\ ~EventLoopHeld
    /\ pagination_scans[scan_name] # NoRow
    /\ pagination_scans' = [pagination_scans EXCEPT ![scan_name] = NoRow]
    /\ UNCHANGED <<post_scans, marketplace_posts,
                   detail_scans, post_details, runs, now, response>>
    /\ UNCHANGED service_vars
    /\ UNCHANGED bot_vars

\* ------------------------------------------------------------------------
\* app/routes/marketplace.py: listing (marketplace post) scans
\* ------------------------------------------------------------------------
\* the rows a query would give if it left out the bots of the runs in flight
marketplace_active_bots_idle(bot_profiles) ==
    SelectSeq([k \in 1..Len(bot_profiles) |->
                  [id |-> k, purpose |-> bot_profiles[k].purpose,
                   session |-> bot_profiles[k].session]],
              LAMBDA b : /\ b.purpose = SCRAPE_MARKETPLACE /\ b.session # NULL
                         /\ \A r \in DOMAIN runs :
                               runs[r].phase = "gather" =>
                                  \A k \in DOMAIN runs[r].pool : runs[r].pool[k].id # b.id)

\* BotProfile.purpose == SCRAPE_MARKETPLACE, BotProfile.session.isnot(None)
marketplace_active_bots(bot_profiles) ==
    SelectSeq(BotRows(bot_profiles), LAMBDA b : b.purpose = SCRAPE_MARKETPLACE /\ b.session # NULL)

PostScanByName(name) ==
    {i \in PostScanIds : post_scans[i] # NoRow /\ post_scans[i].scan_name = name}

\* a taken scan_name (400), a missing pagination scan (404) and an empty list of
\* active bots (400) are answered without a write
enumerate_posts(scan_name, pagination_scan_name, bot_profiles) ==
    /\ ~EventLoopHeld
    /\ PostScanByName(scan_name) = {}
    /\ pagination_scans[pagination_scan_name] # NoRow
    /\ Len(marketplace_active_bots(bot_profiles)) > 0
    /\ post_scans' = [post_scans EXCEPT ![NextId(post_scans)] =
           [scan_name |-> scan_name,
            pagination_scan_name |-> pagination_scan_name,
            status |-> STOPPED,
            start_date |-> now,          \* Column default=datetime.utcnow
            completion_date |-> NoDate]]
    /\ UNCHANGED <<pagination_scans, marketplace_posts,
                   detail_scans, post_details, runs, now, response>>
    /\ UNCHANGED service_vars
    /\ UNCHANGED bot_vars

\* A batch task of a listing run: functools.partial(sync_scrape_batch, bot, batch_key, urls, scan_id)
ListingTask(bot, batch_key, urls) ==
    [bot |-> bot, batch_key |-> batch_key, urls |-> urls,
     st |-> "queued",        \* queued / running / done / failed
     posts_data |-> << >>,   \* the dict returned by scrape_posts: timestamp -> post
     todo |-> {},            \* timestamps of posts_data the save loop has not reached
     pending |-> {}]         \* rows added to batch_db and not yet committed

\* bot = available_bots[i % len(available_bots)] for the 0-based batch index i
AssignBot_clamped(pool, i) == pool[(IF i < Len(pool) THEN i ELSE Len(pool) - 1) + 1]
AssignBot(pool, i) == pool[(i % Len(pool)) + 1]

\* the tasks handed to the executor, in batch_queue order
scrape_batches_tasks(pool, batches) ==
    [k \in 1..Len(batches) |-> ListingTask(AssignBot(pool, k - 1), batches[k].key, batches[k].urls)]

Run(kind, scan_id, pool, tasks) ==
    [kind |-> kind, scan_id |-> scan_id, pool |-> pool, tasks |-> tasks,
     scan_errors |-> 0,      \* len(scan_errors) of a post-detail run
     failed |-> 0,           \* tasks that had raised when the run ended
     phase |-> "gather"]     \* gather / done (status written) / crashed (ended by an exception)

\* if db_scan.status == ScanStatus.RUNNING: raise HTTPException(400, "Scan is already running")
ScanIsRunning_never(db_scan) == FALSE
ScanIsRunning(db_scan) == db_scan.status = RUNNING

\* batches = json.loads(pagination_scan.batches) if pagination_scan.batches else {}
\* if not batches: raise HTTPException(400, "No batches available")
NoBatches_never(batches) == FALSE
NoBatches(batches) == Len(batches) = 0

marketplace_start_post_scan(scan_id, bot_profiles) ==
    LET db_scan == post_scans[scan_id]
        active_bots == marketplace_active_bots(bot_profiles)
        reject(code, detail) ==
            /\ response' = Resp("marketplace_start_post_scan", code, detail)
            /\ UNCHANGED <<post_scans, runs, now>>
    IN
    /\ ~EventLoopHeld
    /\ IF db_scan = NoRow
       THEN reject(404, "Post scan not found")
       ELSE IF ScanIsRunning(db_scan)
       THEN reject(400, "Scan is already running")
       ELSE IF Len(active_bots) = 0
       THEN reject(400, "No active bots available")
       ELSE IF pagination_scans[db_scan.pagination_scan_name] = NoRow
       THEN reject(404, "Pagination scan not found")
       ELSE LET batches == pagination_scans[db_scan.pagination_scan_name].batches IN
            IF NoBatches(batches)
            THEN reject(400, "No batches available")
            ELSE /\ Len(runs) < MaxRuns
                 /\ post_scans' = [post_scans EXCEPT ![scan_id] =
                        [@ EXCEPT !.status = RUNNING, !.start_date = now + 1,
                                  !.completion_date = NoDate]]
                 /\ now' = now + 1
                 /\ runs' = Append(runs, Run("listing", scan_id, active_bots,
                                             scrape_batches_tasks(active_bots, batches)))
                 /\ response' = Resp("marketplace_start_post_scan", 200, "Post scan started")
    /\ UNCHANGED <<pagination_scans, marketplace_posts,
                   detail_scans, post_details>>
    /\ UNCHANGED service_vars
    /\ UNCHANGED bot_vars

PostRow(scan_id, timestamp, post) ==
    [scan_id |-> scan_id, timestamp |-> timestamp,
     title |-> post.title, author |-> post.author, link |-> post.link]

SetTask(r, i, t) == [runs EXCEPT ![r].tasks[i] = t]

Executing(run) == {i \in DOMAIN run.tasks : run.tasks[i].st = "running"}
Queued(run) == {i \in DOMAIN run.tasks : run.tasks[i].st = "queued"}

WorkerFree_unbounded(run, i) == Queued(run) # {} /\ i = Min(Queued(run))

\* ThreadPoolExecutor(max_workers=len(pool)): a free worker takes the oldest queued task
WorkerFree(run, i) ==
    /\ Queued(run) # {}
    /\ i = Min(Queued(run))
    /\ Cardinality(Executing(run)) < Len(run.pool)

\* sync_scrape_batch up to the save loop: scrape_posts returned posts_data
sync_scrape_batch_scrape(r, i, posts_data) ==
    /\ runs[r].kind = "listing" /\ runs[r].phase = "gather"
    /\ WorkerFree(runs[r], i)
    /\ runs' = SetTask(r, i, [runs[r].tasks[i] EXCEPT
                   !.st = "running", !.posts_data = posts_data, !.todo = DOMAIN posts_data])
    /\ UNCHANGED <<pagination_scans, post_scans, marketplace_posts,
                   detail_scans, post_details, now, response>>
    /\ UNCHANGED service_vars
    /\ UNCHANGED bot_vars

\* sync_scrape_batch raising before the save loop (scrape_posts or the parsing of its
\* result raised): except Exception -> batch_db.rollback(); raise
sync_scrape_batch_raise(r, i) ==
    /\ runs[r].kind = "listing" /\ runs[r].phase = "gather"
    /\ WorkerFree(runs[r], i)
    /\ runs' = SetTask(r, i, [runs[r].tasks[i] EXCEPT !.st = "failed"])
    /\ UNCHANGED <<pagination_scans, post_scans, marketplace_posts,
                   detail_scans, post_details, now, response>>
    /\ UNCHANGED service_vars
    /\ UNCHANGED bot_vars

\* batch_db.query(MarketplacePost).filter(scan_id, timestamp, title, link).first()
PostExists(scan_id, timestamp, post) ==
    \E k \in DOMAIN marketplace_posts :
        /\ marketplace_posts[k].scan_id = scan_id
        /\ marketplace_posts[k].timestamp = timestamp
        /\ marketplace_posts[k].title = post.title
        /\ marketplace_posts[k].link = post.link

\* one iteration of "for timestamp, post in posts_data.items()"
sync_scrape_batch_save(r, i) ==
    /\ runs[r].kind = "listing" /\ runs[r].phase = "gather"
    /\ i \in DOMAIN runs[r].tasks
    /\ LET task == runs[r].tasks[i] IN
       /\ task.st = "running" /\ task.todo # {}
       /\ LET timestamp == Min(task.todo)
              post == task.posts_data[timestamp]
          IN runs' = SetTask(r, i, [task EXCEPT
                 !.todo = @ \ {timestamp},
                 !.pending = IF PostExists(runs[r].scan_id, timestamp, post)
                             THEN @
                             ELSE @ \cup {PostRow(runs[r].scan_id, timestamp, post)}])
    /\ UNCHANGED <<pagination_scans, post_scans, marketplace_posts,
                   detail_scans, post_details, now, response>>
    /\ UNCHANGED service_vars
    /\ UNCHANGED bot_vars

\* UniqueConstraint('scan_id', 'timestamp', name='uix_scan_timestamp')
uix_scan_timestamp_absent(table, row) == TRUE
uix_scan_timestamp(table, row) ==
    \A k \in DOMAIN table :
        ~(table[k].scan_id = row.scan_id /\ table[k].timestamp = row.timestamp)

\* a commit that stored the first of the rows only
RowsInOrder_first(rows) ==
    IF rows = {} THEN << >>
    ELSE << CHOOSE x \in rows : \A y \in rows : x.timestamp <= y.timestamp >>

\* the rows of a set as a sequence, in timestamp order
RECURSIVE RowsInOrder(_)
RowsInOrder(rows) ==
    IF rows = {} THEN << >>
    ELSE LET first == CHOOSE x \in rows : \A y \in rows : x.timestamp <= y.timestamp
         IN <<first>> \o RowsInOrder(rows \ {first})

\* batch_db.commit(): the pending rows are inserted together, or the constraint raises
\* IntegrityError and the except branch rolls the batch back and re-raises
sync_scrape_batch_commit(r, i) ==
    /\ runs[r].kind = "listing" /\ runs[r].phase = "gather"
    /\ i \in DOMAIN runs[r].tasks
    /\ LET task == runs[r].tasks[i] IN
       /\ task.st = "running" /\ task.todo = {}
       /\ IF \A row \in task.pending : uix_scan_timestamp(marketplace_posts, row)
          THEN /\ marketplace_posts' = marketplace_posts \o RowsInOrder(task.pending)
               /\ runs' = SetTask(r, i, [task EXCEPT !.st = "done", !.pending = {}])
          ELSE /\ runs' = SetTask(r, i, [task EXCEPT !.st = "failed", !.pending = {},
                                                       !.posts_data = << >>])
               /\ UNCHANGED marketplace_posts
    /\ UNCHANGED <<pagination_scans, post_scans,
                   detail_scans, post_details, now, response>>
    /\ UNCHANGED service_vars
    /\ UNCHANGED bot_vars

AllTasksEnded_ignored(run) == TRUE

\* the gather has returned and the executor's with block has been left (shutdown waits):
\* every submitted task has ended
AllTasksEnded(run) == \A i \in DOMAIN run.tasks : run.tasks[i].st \in {"done", "failed"}
FailedTasks(run) == {i \in DOMAIN run.tasks : run.tasks[i].st = "failed"}

\* what is left of a run once its coroutine has returned: how it ended and how many
\* of its tasks had raised
EndedRun(run, phase, scan_errors) ==
    [kind |-> run.kind, scan_id |-> run.scan_id, pool |-> << >>, tasks |-> << >>,
     scan_errors |-> scan_errors, failed |-> Cardinality(FailedTasks(run)), phase |-> phase]

\* a finalization that left the scan Running
scrape_batches_status_running(run) == RUNNING

\* the status scrape_batches writes after
\* "await asyncio.gather(*tasks, return_exceptions=True)": the results of gather are
\* dropped, so the outcome of the batches does not reach it
scrape_batches_status(run) == COMPLETED

\* scrape_batches after the gather. When the scan row is gone db_scan_final is None,
\* the try block and the except block both raise and the task ends without a write.
scrape_batches_finalize(r) ==
    /\ ~EventLoopHeld
    /\ runs[r].kind = "listing" /\ runs[r].phase = "gather"
    /\ AllTasksEnded(runs[r])
    /\ IF post_scans[runs[r].scan_id] # NoRow
       THEN /\ post_scans' = [post_scans EXCEPT ![runs[r].scan_id] =
                   [@ EXCEPT !.status = scrape_batches_status(runs[r]),
                             !.completion_date = now]]
            /\ runs' = [runs EXCEPT ![r] = EndedRun(@, "done", 0)]
       ELSE /\ runs' = [runs EXCEPT ![r] = EndedRun(@, "crashed", 0)]
            /\ UNCHANGED post_scans
    /\ UNCHANGED <<pagination_scans, marketplace_posts,
                   detail_scans, post_details, now, response>>
    /\ UNCHANGED service_vars
    /\ UNCHANGED bot_vars

\* db.delete(db_scan): the rows of marketplace_posts are left in place (no cascade is
\* declared and SQLite does not enforce the foreign key); a missing scan is answered 404
marketplace_delete_post_scan(scan_id) ==
    /\ ~EventLoopHeld
    /\ post_scans[scan_id] # NoRow
    /\ post_scans' = [post_scans EXCEPT ![scan_id] = NoRow]
    /\ UNCHANGED <<pagination_scans, marketplace_posts,
                   detail_scans, post_details, runs, now, response>>
    /\ UNCHANGED service_vars
    /\ UNCHANGED bot_vars

\* ------------------------------------------------------------------------
\* app/routes/posts.py: post-detail scans
\* ------------------------------------------------------------------------
\* MarketplacePostScan with scan_name == name, completion_date not None, status COMPLETED
CompletedSource(name) ==
    {i \in PostScanIds : /\ post_scans[i] # NoRow
                         /\ post_scans[i].scan_name = name
                         /\ post_scans[i].completion_date # NoDate
                         /\ post_scans[i].status = COMPLETED}

DetailScanByName(name) ==
    {i \in DetailScanIds : detail_scans[i] # NoRow /\ detail_scans[i].scan_name = name}

\* a taken scan_name (400) and a source scan that is missing or not completed (404)
\* are answered without a write; batch_size and site_url are stored as submitted
create_post_scan(scan_name, source_scan_name, size, site_url) ==
    /\ ~EventLoopHeld
    /\ DetailScanByName(scan_name) = {}
    /\ CompletedSource(source_scan_name) # {}
    /\ detail_scans' = [detail_scans EXCEPT ![NextId(detail_scans)] =
           [scan_name |-> scan_name,
            source_scan_name |-> source_scan_name,
            status |-> STOPPED,
            start_date |-> now,          \* Column default=datetime.utcnow
            completion_date |-> NoDate,
            batch_size |-> size,
            site_url |-> site_url]]
    /\ UNCHANGED <<pagination_scans, post_scans, marketplace_posts,
                   post_details, runs, now, response>>
    /\ UNCHANGED service_vars
    /\ UNCHANGED bot_vars

\* BotProfile.purpose == SCRAPE_POST, BotProfile.session.isnot(None), BotProfile.session != ""
posts_active_bots(bot_profiles) ==
    SelectSeq(BotRows(bot_profiles), LAMBDA b : b.purpose = SCRAPE_POST /\ b.session # NULL /\ b.session # "")

\* post_data = [(post.link, post.timestamp) for post in posts], posts being the rows of
\* marketplace_posts with scan_id == source_scan.id
post_data(source_id) ==
    LET rows == SelectSeq(marketplace_posts, LAMBDA p : p.scan_id = source_id)
    IN [k \in 1..Len(rows) |-> [link |-> rows[k].link, timestamp |-> rows[k].timestamp]]

\* f"batch_{n:03d}"
BatchName(n) ==
    "batch_" \o (IF n < 10 THEN "00" ELSE IF n < 100 THEN "0" ELSE "") \o ToString(n)

\* range(0, n, step) for step # 0
RangeFrom0(n, step) == IF step < 0 THEN {} ELSE {i \in 0..(n - 1) : i % step = 0}

DetailTask(bot, batch_name, batch_posts) ==
    [bot |-> bot, batch_name |-> batch_name, batch_posts |-> batch_posts,
     st |-> "queued",        \* queued / running / done / failed
     pos |-> 1,              \* index in batch_posts of the post the loop is at
     enriched |-> {},        \* indexes of the posts scraped, translated and classified
     english |-> {},         \* those of them with an English title and an English content
     translate_calls |-> {}, \* indexes of the posts translate_string was called for
     mismatched |-> {}]      \* indexes of the posts whose page showed another timestamp

\* batches.append((f"batch_{i//batch_size + 1:03d}", post_data[i:i+batch_size])) and the
\* task built for each: bot = active_bots[i % len(active_bots)]
scrape_post_batches_tasks(pool, posts, size) ==
    [k \in 1..Cardinality(RangeFrom0(Len(posts), size)) |->
        LET i == (k - 1) * size
        IN DetailTask(AssignBot(pool, k - 1), BatchName((i \div size) + 1), Slice(posts, i, size))]

posts_start_post_scan(scan_id, bot_profiles, apis) ==
    LET db_scan == detail_scans[scan_id]
        active_bots == posts_active_bots(bot_profiles)
        reject(code, detail) ==
            /\ response' = Resp("posts_start_post_scan", code, detail)
            /\ UNCHANGED <<detail_scans, runs, now>>
    IN
    /\ ~EventLoopHeld
    /\ IF db_scan = NoRow
       THEN reject(404, "Post detail scan not found")
       ELSE IF ScanIsRunning(db_scan)
       THEN reject(400, "Scan is already running")
       ELSE IF ~({"translation_api", "iab_api"} \subseteq apis)
       THEN reject(400, "Required APIs not found")
       ELSE IF Len(active_bots) = 0
       THEN reject(400, "No active bots available")
       ELSE IF CompletedSource(db_scan.source_scan_name) = {}
       THEN reject(404, "Source post scan not found or not completed")
       ELSE LET source_id == Min(CompletedSource(db_scan.source_scan_name))
                posts == post_data(source_id)
            IN
            IF Len(posts) = 0
            THEN reject(404, "No posts found")
            ELSE IF db_scan.site_url = ""
            THEN reject(400, "Site URL is required")
            ELSE IF db_scan.batch_size = 0
            THEN \* range() arg 3 must not be zero: ValueError, caught by except Exception
                 reject(500, "Internal server error")
            ELSE /\ Len(runs) < MaxRuns
                 /\ detail_scans' = [detail_scans EXCEPT ![scan_id] =
                        [@ EXCEPT !.status = RUNNING, !.start_date = now + 1,
                                  !.completion_date = NoDate]]
                 /\ now' = now + 1
                 /\ runs' = Append(runs, Run("detail", scan_id, active_bots,
                        scrape_post_batches_tasks(active_bots, posts, db_scan.batch_size)))
                 /\ response' = Resp("posts_start_post_scan", 200, "Post detail scan started")
    /\ UNCHANGED <<pagination_scans, post_scans, marketplace_posts,
                   post_details>>
    /\ UNCHANGED service_vars
    /\ UNCHANGED bot_vars

\* a worker takes the batch and enters its loop
sync_scrape_post_begin(r, i) ==
    /\ runs[r].kind = "detail" /\ runs[r].phase = "gather"
    /\ WorkerFree(runs[r], i)
    /\ runs' = SetTask(r, i, [runs[r].tasks[i] EXCEPT !.st = "running"])
    /\ UNCHANGED <<pagination_scans, post_scans, marketplace_posts,
                   detail_scans, post_details, now, response>>
    /\ UNCHANGED service_vars
    /\ UNCHANGED bot_vars

\* sync_scrape_post raising outside the per-post try (opening batch_db, reading the bot):
\* the exception is the task's result
sync_scrape_post_raise(r, i) ==
    /\ runs[r].kind = "detail" /\ runs[r].phase = "gather"
    /\ WorkerFree(runs[r], i)
    /\ runs' = SetTask(r, i, [runs[r].tasks[i] EXCEPT !.st = "failed"])
    /\ UNCHANGED <<pagination_scans, post_scans, marketplace_posts,
                   detail_scans, post_details, now, response>>
    /\ UNCHANGED service_vars
    /\ UNCHANGED bot_vars

\* columns of MarketplacePostDetails
MarketplacePostDetailsColumns ==
    {"id", "scan_id", "batch_name", "title", "content", "timestamp", "author", "link",
     "original_language", "original_text", "translated_language", "translated_text",
     "is_translated", "sentiment", "positive_score", "negative_score", "neutral_score",
     "timestamp_added"}

\* keyword arguments of the MarketplacePostDetails(...) call in sync_scrape_post
db_post_details_kwargs ==
    {"scan_id", "batch_name", "title", "content", "timestamp", "author", "link",
     "original_language", "original_text", "translated_language", "translated_text",
     "is_translated", "classification", "sentiment", "positive_score", "negative_score",
     "neutral_score"}

\* the declarative constructor raises TypeError for a keyword that is not an attribute
\* of the mapped class
ConstructorAccepts(columns, kwargs) == kwargs \subseteq columns

\* UniqueConstraint('scan_id', 'timestamp', 'batch_name', name='uix_scan_timestamp_batch')
uix_scan_timestamp_batch(table, row) ==
    \A k \in DOMAIN table :
        ~(/\ table[k].scan_id = row.scan_id
          /\ table[k].timestamp = row.timestamp
          /\ table[k].batch_name = row.batch_name)

\* what the site and the enrichment services answer for one post: the post is not
\* scraped (no data, bad JSON, "error", missing fields), its page shows another
\* timestamp, a translation or the classification cannot be parsed, or every step succeeds
ItemOutcomes == {"scrape_error", "timestamp_mismatch", "translation_error", "iab_error", "enriched"}

\* a timestamp no post of the listing carries
OtherTimestamp == 99

\* scraped_data["timestamp"]
scraped_timestamp(outcome, post_timestamp) ==
    IF outcome = "timestamp_mismatch" THEN OtherTimestamp ELSE post_timestamp

\* if scraped_data["timestamp"] != post_timestamp: ... continue
TimestampMismatch_never(scraped, post_timestamp) == FALSE
TimestampMismatch(scraped, post_timestamp) == scraped # post_timestamp

\* what the scraped title and content are after the ascii normalisation: blank, English,
\* Russian, or a text detect() raises on
TextKinds == {"blank", "en", "ru", "undetectable"}
ScrapedTexts == TextKinds \X TextKinds

\* detect(text) if text.strip() else 'en'
detect_or_default(kind) == IF kind = "blank" THEN "en" ELSE kind

\* <<title_lang, content_lang>>: both detections are in one try, an exception of either
\* sets both to 'unknown'
detect_languages(title, content) ==
    IF "undetectable" \in {title, content}
    THEN <<"unknown", "unknown">>
    ELSE <<detect_or_default(title), detect_or_default(content)>>

\* the pairs detect_languages can give
DetectedLanguages == {detect_languages(t[1], t[2]) : t \in ScrapedTexts}

\* "if title_lang == 'en' and content_lang == 'en'": translate_string is not called
SkipTranslation(title_lang, content_lang) == title_lang = "en" /\ content_lang = "en"

\* detected_source_lang of the DeepL answer for the content
DeepLSourceLanguages == {"EN", "RU"}

\* content_trans: built in place when the translation is skipped, else the answer of
\* translate_string for the content. The text "content" stands for the scraped content,
\* "content (EN)" for its translation.
content_trans(title_lang, content_lang, source_lang) ==
    IF SkipTranslation(title_lang, content_lang)
    THEN [original |-> [text |-> "content", language |-> "en"],
          translated |-> [text |-> "content", language |-> "en", translated |-> FALSE]]
    ELSE IF source_lang # "EN"
    THEN [original |-> [text |-> "content", language |-> source_lang],
          translated |-> [text |-> "content (EN)", language |-> "EN", translated |-> TRUE]]
    ELSE [original |-> [text |-> "content", language |-> source_lang],
          translated |-> [text |-> NULL, language |-> NULL, translated |-> FALSE]]

\* one iteration of "for post_link, post_timestamp in batch_posts"
sync_scrape_post_item(r, i, outcome, texts) ==
    /\ runs[r].kind = "detail" /\ runs[r].phase = "gather"
    /\ i \in DOMAIN runs[r].tasks
    /\ \E source_lang \in DeepLSourceLanguages :
       LET task == runs[r].tasks[i]
           langs == detect_languages(texts[1], texts[2])
       IN
       /\ outcome = "translation_error" => ~SkipTranslation(langs[1], langs[2])
       /\ task.st = "running" /\ task.pos <= Len(task.batch_posts)
       /\ LET post == task.batch_posts[task.pos]
              scraped == scraped_timestamp(outcome, post.timestamp)
              \* the post got past the timestamp check, to the language detection
              detected == /\ outcome # "scrape_error"
                          /\ ~TimestampMismatch(scraped, post.timestamp)
              \* and past translation and classification, to the MarketplacePostDetails call
              classified == detected /\ outcome \notin {"translation_error", "iab_error"}
              trans == content_trans(langs[1], langs[2], source_lang)
              row == [scan_id |-> runs[r].scan_id, batch_name |-> task.batch_name,
                      timestamp |-> scraped, link |-> post.link,
                      original_language |-> trans.original.language,
                      original_text |-> trans.original.text,
                      translated_language |-> trans.translated.language,
                      translated_text |-> trans.translated.text,
                      is_translated |-> trans.translated.translated]
              existing_post == ~uix_scan_timestamp_batch(post_details, row)
              stored == /\ classified
                        /\ ~existing_post
                        /\ ConstructorAccepts(MarketplacePostDetailsColumns, db_post_details_kwargs)
              \* "continue" after a logged error; a duplicate is skipped without one
              error == IF classified THEN ~existing_post /\ ~stored ELSE TRUE
          IN /\ post_details' = IF stored THEN Append(post_details, row) ELSE post_details
             /\ runs' = [runs EXCEPT ![r].tasks[i].pos = @ + 1,
                                     ![r].tasks[i].enriched =
                                         IF classified THEN @ \cup {task.pos} ELSE @,
                                     ![r].tasks[i].english =
                                         IF classified /\ texts = <<"en", "en">>
                                         THEN @ \cup {task.pos} ELSE @,
                                     ![r].tasks[i].translate_calls =
                                         IF detected /\ ~SkipTranslation(langs[1], langs[2])
                                         THEN @ \cup {task.pos} ELSE @,
                                     ![r].tasks[i].mismatched =
                                         IF outcome = "timestamp_mismatch"
                                         THEN @ \cup {task.pos} ELSE @,
                                     ![r].scan_errors = IF error THEN @ + 1 ELSE @]
    /\ UNCHANGED <<pagination_scans, post_scans, marketplace_posts,
                   detail_scans, now, response>>
    /\ UNCHANGED service_vars
    /\ UNCHANGED bot_vars

\* the loop is over: the task returns
sync_scrape_post_return(r, i) ==
    /\ runs[r].kind = "detail" /\ runs[r].phase = "gather"
    /\ i \in DOMAIN runs[r].tasks
    /\ runs[r].tasks[i].st = "running"
    /\ runs[r].tasks[i].pos > Len(runs[r].tasks[i].batch_posts)
    /\ runs' = SetTask(r, i, [runs[r].tasks[i] EXCEPT !.st = "done"])
    /\ UNCHANGED <<pagination_scans, post_scans, marketplace_posts,
                   detail_scans, post_details, now, response>>
    /\ UNCHANGED service_vars
    /\ UNCHANGED bot_vars

\* len(scan_errors) after the loop over the results of gather: one more entry for each
\* task whose result is an exception
scan_errors_collected(run) == run.scan_errors + Cardinality(FailedTasks(run))

\* "if scan_errors: STOPPED else: COMPLETED"
scrape_post_batches_status_ignoring(run) == COMPLETED
scrape_post_batches_status(run) ==
    IF scan_errors_collected(run) > 0 THEN STOPPED ELSE COMPLETED

\* scrape_post_batches after the gather. When the scan row is gone db_scan_final is
\* None, the try block and the except block both raise and the task ends without a write.
scrape_post_batches_finalize(r) ==
    /\ ~EventLoopHeld
    /\ runs[r].kind = "detail" /\ runs[r].phase = "gather"
    /\ AllTasksEnded(runs[r])
    /\ IF detail_scans[runs[r].scan_id] # NoRow
       THEN /\ detail_scans' = [detail_scans EXCEPT ![runs[r].scan_id] =
                   [@ EXCEPT !.status = scrape_post_batches_status(runs[r]),
                             !.completion_date = now]]
            /\ runs' = [runs EXCEPT ![r] = EndedRun(@, "done", scan_errors_collected(@))]
       ELSE /\ runs' = [runs EXCEPT ![r] = EndedRun(@, "crashed", scan_errors_collected(@))]
            /\ UNCHANGED detail_scans
    /\ UNCHANGED <<pagination_scans, post_scans, marketplace_posts,
                   post_details, now, response>>
    /\ UNCHANGED service_vars
    /\ UNCHANGED bot_vars

\* db.delete(db_scan): the rows of marketplace_post_details are left in place; a missing
\* scan is answered 404
posts_delete_post_scan(scan_id) ==
    /\ ~EventLoopHeld
    /\ detail_scans[scan_id] # NoRow
    /\ detail_scans' = [detail_scans EXCEPT ![scan_id] = NoRow]
    /\ UNCHANGED <<pagination_scans, post_scans, marketplace_posts,
                   post_details, runs, now, response>>
    /\ UNCHANGED service_vars
    /\ UNCHANGED bot_vars

\* The server process ends while runs are in flight. The runs are tasks of its event loop
\* (asyncio.create_task) and threads of its executors, so they end with it and what a
\* batch had not committed is lost; the tables keep what was committed. On the next start
\* app/main.py only calls init_db(), which creates missing tables.
process_crash ==
    /\ \E r \in DOMAIN runs : runs[r].phase = "gather"
    /\ runs' = [r \in DOMAIN runs |->
                   IF runs[r].phase = "gather" THEN EndedRun(runs[r], "killed", 0)
                   ELSE runs[r]]
    /\ UNCHANGED <<pagination_scans, post_scans, marketplace_posts,
                   detail_scans, post_details, now, response>>
    /\ UNCHANGED service_vars
    /\ UNCHANGED bot_vars

\* a run of the scan is in flight
RunInFlight(kind, scan_id) ==
    \E r \in DOMAIN runs :
        runs[r].kind = kind /\ runs[r].scan_id = scan_id /\ runs[r].phase = "gather"

\* ------------------------------------------------------------------------
\* app/services/tornet_forum_login.py
\* ------------------------------------------------------------------------
max_attempts == 9

\* What a call runs against. credentials: whether the site knows username/password.
\* solver: "accepted" when solve_captcha always returns the code the site accepts,
\* "unreliable" when it may also return None or a code the site refuses. site: "steady"
\* when every request is answered and the login page carries the CAPTCHA image,
\* "unreliable" when a request may fail, the image may be missing or the answer to the
\* submission may be none of the expected pages.
LoginEnvs == [credentials : {"correct", "wrong"},
              solver : {"accepted", "unreliable"},
              site : {"steady", "unreliable"}]

\* how one iteration of "while True" ends
LoginEvents == {"request_error", "captcha_not_found", "unexpected_error", "solve_failed",
                "submit_error", "invalid_credentials", "invalid_captcha", "success",
                "unexpected_response"}

\* the events an environment can produce
LoginEventPossible(env, event) ==
    CASE event \in {"request_error", "captcha_not_found", "unexpected_error",
                    "submit_error", "unexpected_response"} -> env.site = "unreliable"
      [] event \in {"solve_failed", "invalid_captcha"} -> env.solver = "unreliable"
      [] event = "invalid_credentials" -> env.credentials = "wrong"
      [] event = "success" -> env.credentials = "correct"

\* the iteration got as far as solve_captcha / as session.post
ReachedSolve(event) ==
    event \in {"solve_failed", "submit_error", "invalid_credentials", "invalid_captcha",
               "success", "unexpected_response"}
ReachedSubmit(event) ==
    event \in {"submit_error", "invalid_credentials", "invalid_captcha", "success",
               "unexpected_response"}

\* the branches of the loop that end in "continue"; the other two return
Retryable_but_success(event) == event # "success"
Retryable_always(event) == TRUE
Retryable(event) == event \notin {"invalid_credentials", "success"}

\* attempt_count += 1; if attempt_count >= max_attempts: time.sleep(300); attempt_count = 0
attempt_count_never_reset(attempt_count) == attempt_count + 1
attempt_count_after(attempt_count) ==
    IF attempt_count + 1 >= max_attempts THEN 0 ELSE attempt_count + 1

\* whether the failure that moved the counter off attempt_count went through time.sleep(300)
Cooldown(attempt_count) == attempt_count + 1 >= max_attempts

\* the value of the "session" cookie the site sets on a successful login
SessionCookie == "abc123"

NoLogin ==
    [pc |-> "idle", env |-> [credentials |-> "correct", solver |-> "accepted", site |-> "steady"],
     attempt_count |-> 0, fetches |-> 0, solves |-> 0, submissions |-> 0, cooldowns |-> 0,
     last |-> "none", cookie |-> NULL,
     captcha_answer |-> << >>,   \* the last answer of the model solve_captcha got
     captcha_text |-> << >>]     \* what solve_captcha returned for it

\* login_to_tor_website is called (perform_bot_login calls it for one profile after the
\* other): a new requests.Session, attempt_count = 0
login_to_tor_website(env) ==
    /\ ~EventLoopHeld
    /\ login.pc \in {"idle", "returned"}
    /\ login' = [NoLogin EXCEPT !.pc = "running", !.env = env]
    /\ UNCHANGED <<containers, proxies, provision, proxy_response>>
    /\ UNCHANGED scan_vars
    /\ UNCHANGED bot_vars

\* one iteration of the loop: the login page is fetched, the CAPTCHA solved, the form
\* submitted and the answer classified, as far as the iteration gets
login_attempt(event) ==
    /\ login.pc = "running"
    /\ login.fetches < MaxLoginIterations
    /\ LoginEventPossible(login.env, event)
    /\ login' = [login EXCEPT
           !.fetches = @ + 1,
           !.solves = IF ReachedSolve(event) THEN @ + 1 ELSE @,
           !.submissions = IF ReachedSubmit(event) THEN @ + 1 ELSE @,
           !.last = event,
           !.pc = IF Retryable(event) THEN "running" ELSE "returned",
           !.attempt_count = IF Retryable(event) THEN attempt_count_after(@) ELSE @,
           !.cooldowns = IF Retryable(event) /\ Cooldown(login.attempt_count) THEN @ + 1 ELSE @,
           !.cookie = IF event = "success" THEN SessionCookie ELSE NULL]
    /\ UNCHANGED <<containers, proxies, provision, proxy_response>>
    /\ UNCHANGED scan_vars
    /\ UNCHANGED bot_vars

\* A text is a sequence of characters. [A-Z0-9] of the regular expression:
CodeChars ==
    {"A", "B", "C", "D", "E", "F", "G", "H", "I", "J", "K", "L", "M", "N", "O", "P", "Q",
     "R", "S", "T", "U", "V", "W", "X", "Y", "Z",
     "0", "1", "2", "3", "4", "5", "6", "7", "8", "9"}

\* None, and the empty string "if not captcha_text" treats alike
NoCode == << >>

\* re.search(r'[A-Z0-9]{6}', captcha_text): the leftmost six characters in a row that
\* are all of [A-Z0-9]; match.group(0), or None without a match
clean_captcha_text(captcha_text) ==
    LET n == Len(captcha_text)
        starts == {k \in 1..(n - 5) : \A j \in 0..5 : captcha_text[k + j] \in CodeChars}
    IN IF starts = {} THEN NoCode
       ELSE SubSeq(captcha_text, Min(starts), Min(starts) + 5)

\* words an answer of the model is made of
AnswerWords ==
    { <<"A", "B", "1", "2", "F", "9">>,
      <<"X", "Y", "3", "4", "Z", "8">>,
      <<"A", "B", "1", "2", "F", "9", "K", "7">>,
      <<"T", "H", "E">>,
      <<"c", "o", "d", "e", ":">> }

\* message.content.strip() of the model: one to three words separated by a blank
CaptchaAnswers ==
    AnswerWords
    \cup {a \o <<" ">> \o b : a \in AnswerWords, b \in AnswerWords}
    \cup {a \o <<" ">> \o b \o <<" ">> \o c :
             a \in AnswerWords, b \in AnswerWords, c \in AnswerWords}

\* one iteration of the loop as far as solve_captcha, the model answering captcha_answer:
\* without a code the iteration ends as a failed solve ("Failed to solve CAPTCHA"), with a
\* code it goes on to the submission of that code
solve_captcha(captcha_answer) ==
    /\ login.pc = "running"
    /\ login.fetches < MaxLoginIterations
    /\ LET captcha_text == clean_captcha_text(captcha_answer) IN
       login' = IF captcha_text = NoCode
                THEN [login EXCEPT
                         !.captcha_answer = captcha_answer,
                         !.captcha_text = captcha_text,
                         !.fetches = @ + 1,
                         !.solves = @ + 1,
                         !.last = "solve_failed",
                         !.attempt_count = attempt_count_after(@),
                         !.cooldowns = IF Cooldown(login.attempt_count) THEN @ + 1 ELSE @]
                ELSE [login EXCEPT
                         !.captcha_answer = captcha_answer,
                         !.captcha_text = captcha_text]
    /\ UNCHANGED <<containers, proxies, provision, proxy_response>>
    /\ UNCHANGED scan_vars
    /\ UNCHANGED bot_vars

\* perform_bot_login: "if session and session.cookies.get('session')" stores
\* f"session={cookie}" in the profile, anything else is a failed login
profile_session(l) ==
    IF l.pc = "returned" /\ l.cookie # NULL /\ l.cookie # ""
    THEN "session=" \o l.cookie
    ELSE NULL

\* ------------------------------------------------------------------------
\* Tor proxies: app/routes/proxy_gen.py, app/services/tor_proxy_gen.py,
\* app/services/rm_container.py, app/services/container_status.py
\* ------------------------------------------------------------------------
\* random_container_name draws "torproxy_" and six random letters; two names stand for
\* the draws, and a draw can repeat an earlier one
ProxyNames == {"torproxy_a", "torproxy_b"}

\* containers is the set of names of the containers Docker holds; proxies is the proxies
\* table, one row per container_name (unique); provision is the call of create_proxy in
\* progress or last made:
\*   pc       where the call is: the stage of create_and_start_proxy about to run,
\*            "finally" for its finally block, "returning" once it has returned or raised
\*            to create_proxy, "answered" once create_proxy has answered
\*   removed  whether the finally block issued "docker rm -f container_name"
NoProvision ==
    [pc |-> "idle", container_name |-> "", success |-> FALSE, removed |-> FALSE,
     error |-> "none"]

ProxyRow(name) == IF \E row \in proxies : row.container_name = name
                  THEN CHOOSE row \in proxies : row.container_name = name
                  ELSE NoRow

\* create_proxy up to the first command of create_and_start_proxy: the name is drawn and
\* success is False
create_proxy(name) ==
    /\ ~EventLoopHeld
    /\ provision' = [pc |-> "compose", container_name |-> name, success |-> FALSE,
                     removed |-> FALSE, error |-> "none"]
    /\ proxy_response' = Resp("create_proxy", 0, "")
    /\ UNCHANGED <<containers, proxies, login>>
    /\ UNCHANGED scan_vars
    /\ UNCHANGED bot_vars

\* "docker compose up --build -d": it ends with the container up, or fails (RuntimeError)
\* with the container created or not; a name Docker already holds makes it fail
ComposeResults == {"up", "failed", "failed_created"}

compose_up(result) ==
    /\ provision.pc = "compose"
    /\ provision.container_name \in containers => result = "failed"
    /\ containers' = IF result \in {"up", "failed_created"}
                     THEN containers \cup {provision.container_name}
                     ELSE containers
    /\ provision' = IF result = "up"
                    THEN [provision EXCEPT !.pc = "wait_for_port"]
                    ELSE [provision EXCEPT !.pc = "finally", !.error = "compose_failed"]
    /\ UNCHANGED <<proxies, proxy_response, login>>
    /\ UNCHANGED scan_vars
    /\ UNCHANGED bot_vars

\* wait_for_port: the port opens within WAIT_MAX_SECONDS or RuntimeError
wait_for_port(opened) ==
    /\ provision.pc = "wait_for_port"
    /\ provision' = IF opened
                    THEN [provision EXCEPT !.pc = "inspect"]
                    ELSE [provision EXCEPT !.pc = "finally", !.error = "port_timeout"]
    /\ UNCHANGED <<containers, proxies, proxy_response, login>>
    /\ UNCHANGED scan_vars
    /\ UNCHANGED bot_vars

\* "docker inspect": an address, an empty output (RuntimeError "No container IP
\* returned") or a failing command (CalledProcessError)
InspectResults == {"ip", "empty", "error"}

docker_inspect(result) ==
    /\ provision.pc = "inspect"
    /\ provision' = CASE result = "ip" -> [provision EXCEPT !.pc = "fetch_tor_exit_ip"]
                      [] result = "empty" ->
                            [provision EXCEPT !.pc = "finally", !.error = "no_container_ip"]
                      [] result = "error" ->
                            [provision EXCEPT !.pc = "finally", !.error = "inspect_failed"]
    /\ UNCHANGED <<containers, proxies, proxy_response, login>>
    /\ UNCHANGED scan_vars
    /\ UNCHANGED bot_vars

\* fetch_tor_exit_ip: the first service that answers, RuntimeError when all fail; then
\* "success = True" and the return of the dict
fetch_tor_exit_ip(found) ==
    /\ provision.pc = "fetch_tor_exit_ip"
    /\ provision' = IF found
                    THEN [provision EXCEPT !.pc = "finally", !.success = TRUE]
                    ELSE [provision EXCEPT !.pc = "finally", !.error = "exit_ip_failed"]
    /\ UNCHANGED <<containers, proxies, proxy_response, login>>
    /\ UNCHANGED scan_vars
    /\ UNCHANGED bot_vars

\* "if not success and container_name"
CleanupNeeded_never(success, container_name) == FALSE
CleanupNeeded(success, container_name) == ~success /\ container_name # ""

\* the finally block of create_and_start_proxy: "docker rm -f container_name" unless
\* success
create_and_start_proxy_finally ==
    /\ provision.pc = "finally"
    /\ LET cleanup == CleanupNeeded(provision.success, provision.container_name) IN
       /\ containers' = IF cleanup THEN containers \ {provision.container_name}
                        ELSE containers
       /\ provision' = [provision EXCEPT !.pc = "returning", !.removed = cleanup]
    /\ UNCHANGED <<proxies, proxy_response, login>>
    /\ UNCHANGED scan_vars
    /\ UNCHANGED bot_vars

\* the rest of create_proxy: the row is added (IntegrityError when the name has a row
\* already), any exception is answered 500
create_proxy_answer ==
    /\ provision.pc = "returning"
    /\ LET stored == provision.success /\ ProxyRow(provision.container_name) = NoRow IN
       /\ proxies' = IF stored
                     THEN proxies \cup {[container_name |-> provision.container_name,
                                         running |-> TRUE]}
                     ELSE proxies
       /\ proxy_response' = IF stored
                            THEN Resp("create_proxy", 200, "created successfully")
                            ELSE Resp("create_proxy", 500, "Failed to create proxy")
    /\ provision' = [provision EXCEPT !.pc = "answered"]
    /\ UNCHANGED <<containers, login>>
    /\ UNCHANGED scan_vars
    /\ UNCHANGED bot_vars

\* delete_container: "docker rm -f name" with check=True. rm_ok is the exit status Docker
\* gives when it holds no container of that name (an error in older releases, none in
\* newer ones); a container it holds is removed.
delete_container(name, rm_ok) == name \in containers \/ rm_ok

\* delete_proxy. The HTTPException(404) of a missing row is raised inside the try and
\* caught by "except Exception", which answers 500.
delete_proxy(name, rm_ok) ==
    /\ ~EventLoopHeld
    /\ LET proxy == ProxyRow(name) IN
       IF proxy = NoRow
       THEN /\ proxy_response' = Resp("delete_proxy", 500,
                                      "Failed to delete proxy: 404: Proxy not found")
            /\ UNCHANGED <<containers, proxies>>
       ELSE IF delete_container(name, rm_ok)
       THEN /\ containers' = containers \ {name}
            /\ proxies' = proxies \ {proxy}
            /\ proxy_response' = Resp("delete_proxy", 200, "deleted successfully")
       ELSE /\ proxy_response' = Resp("delete_proxy", 500,
                                      "Failed to delete proxy: 500: Failed to delete proxy")
            /\ UNCHANGED <<containers, proxies>>
    /\ UNCHANGED <<provision, login>>
    /\ UNCHANGED scan_vars
    /\ UNCHANGED bot_vars

\* container_running: docker inspect State.Running, False when Docker has no such container
container_running(name) == name \in containers

\* list_proxies: each row's running flag is brought in line with container_running
list_proxies ==
    /\ ~EventLoopHeld
    /\ proxies' = {[row EXCEPT !.running = container_running(row.container_name)] :
                      row \in proxies}
    /\ proxy_response' = Resp("list_proxies", 200, "")
    /\ UNCHANGED <<containers, provision, login>>
    /\ UNCHANGED scan_vars
    /\ UNCHANGED bot_vars

\* ------------------------------------------------------------------------
\* app/routes/bot_profile.py: bot profiles and their automated login
\* ------------------------------------------------------------------------
ProfileNames == {"bot_a", "bot_b", "bot_c"}
TorProxies == {NULL, "socks5h://127.0.0.1:9050"}
StoredSessions == {NULL, "session=old"}

NoBotLogin ==
    [pc |-> "idle",          \* idle / loop / calling / answered
     pos |-> 0,              \* index in profiles of the profile the loop is at
     before |-> << >>,       \* profile.session of each row when the handler read the table
     activated |-> {},       \* indexes whose login returned a session with a "session" cookie
     success_count |-> 0,
     failed_logins |-> 0]    \* len(failed_logins)

\* create_bot_profile: tor_proxy and session are stored as submitted. A taken username
\* is answered without a write.
create_bot_profile(username, tor_proxy, session) ==
    /\ ~EventLoopHeld
    /\ \A k \in DOMAIN profiles : profiles[k].username # username
    /\ profiles' = Append(profiles, [username |-> username, tor_proxy |-> tor_proxy,
                                     session |-> session])
    /\ UNCHANGED bot_login
    /\ UNCHANGED scan_vars
    /\ UNCHANGED service_vars

\* perform_bot_login up to its loop: profiles = db.query(BotProfile).all(); an empty
\* table is answered 400. The onion URL and the CAPTCHA API are taken to be set.
perform_bot_login ==
    /\ ~EventLoopHeld
    /\ Len(profiles) > 0
    /\ bot_login' = [NoBotLogin EXCEPT
           !.pc = "loop", !.pos = 1,
           !.before = [k \in DOMAIN profiles |-> profiles[k].session]]
    /\ UNCHANGED profiles
    /\ UNCHANGED scan_vars
    /\ UNCHANGED service_vars

\* "for profile in profiles": a profile without tor_proxy is skipped ("continue"), for
\* any other login_to_tor_website is called, which runs against env
perform_bot_login_profile(env) ==
    /\ bot_login.pc = "loop"
    /\ bot_login.pos \in DOMAIN profiles
    /\ IF profiles[bot_login.pos].tor_proxy \in {NULL, ""}
       THEN /\ bot_login' = [bot_login EXCEPT !.pos = @ + 1, !.failed_logins = @ + 1]
            /\ UNCHANGED login
       ELSE /\ bot_login' = [bot_login EXCEPT !.pc = "calling"]
            /\ login' = [NoLogin EXCEPT !.pc = "running", !.env = env]
    /\ UNCHANGED <<profiles, containers, proxies, provision, proxy_response>>
    /\ UNCHANGED scan_vars

\* if session and session.cookies.get("session"): session is None unless the call ended
\* with a successful login
CookieReturned_always(last, cookie) == TRUE
CookieReturned(last, cookie) == last = "success" /\ cookie # NULL

\* login_to_tor_website has returned; cookie is what session.cookies.get("session") gives
\* for a session returned (the site may have set the cookie or not)
perform_bot_login_store(cookie) ==
    /\ bot_login.pc = "calling"
    /\ login.pc = "returned"
    /\ cookie \in {NULL, login.cookie}
    /\ IF CookieReturned(login.last, cookie)
       THEN /\ profiles' = [profiles EXCEPT ![bot_login.pos].session = "session=" \o cookie]
            /\ bot_login' = [bot_login EXCEPT
                   !.pc = "loop", !.pos = @ + 1, !.success_count = @ + 1,
                   !.activated = IF login.last = "success" /\ cookie # NULL
                                 THEN @ \cup {bot_login.pos} ELSE @]
       ELSE /\ bot_login' = [bot_login EXCEPT
                   !.pc = "loop", !.pos = @ + 1, !.failed_logins = @ + 1]
            /\ UNCHANGED profiles
    /\ UNCHANGED service_vars
    /\ UNCHANGED scan_vars

\* the loop has ended: the answer reports success_count and failed_logins
perform_bot_login_answer ==
    /\ bot_login.pc = "loop"
    /\ bot_login.pos > Len(profiles)
    /\ bot_login' = [bot_login EXCEPT !.pc = "answered"]
    /\ UNCHANGED profiles
    /\ UNCHANGED scan_vars
    /\ UNCHANGED service_vars

\* ------------------------------------------------------------------------
\* app/routes/marketplace.py: status of a listing scan
\* ------------------------------------------------------------------------
\* GET /posts/{scan_id}/status. The HTTPException(404) of a missing scan is caught by
\* "except Exception" and answered 500.
get_post_scan_status(scan_id) ==
    /\ ~EventLoopHeld
    /\ response' = IF post_scans[scan_id] = NoRow
                   THEN Resp("get_post_scan_status", 500, "Internal server error")
                   ELSE Resp("get_post_scan_status", 200, post_scans[scan_id].status)
    /\ UNCHANGED <<pagination_scans, post_scans, marketplace_posts,
                   detail_scans, post_details, runs, now>>
    /\ UNCHANGED service_vars
    /\ UNCHANGED bot_vars

\* ------------------------------------------------------------------------
\* Inputs
\* ------------------------------------------------------------------------
\* What scrape_posts can return for a batch: a dict keyed by timestamp (so one post
\* per timestamp), each value a post the site lists.
HarvestTimestamps == {1, 2, 3}
SitePosts == { [title |-> "A", author |-> "u", link |-> "/post/a"],
               [title |-> "B", author |-> "u", link |-> "/post/b"] }
PostA == CHOOSE p \in SitePosts : p.title = "A"
PostB == CHOOSE p \in SitePosts : p.title = "B"

\* Contents of apis tried: the api_type values that have an active row
ApiTables == { {"translation_api", "iab_api"}, {"translation_api"} }
SiteUrls == {"http://forum.onion/"}
TaskIds == 1..3

Init ==
    /\ pagination_scans = [n \in PaginationNames |-> NoRow]
    /\ post_scans = [i \in PostScanIds |-> NoRow]
    /\ marketplace_posts = << >>
    /\ detail_scans = [i \in DetailScanIds |-> NoRow]
    /\ post_details = << >>
    /\ runs = << >>
    /\ now = 1
    /\ response = Resp("none", 0, "")
    /\ login = NoLogin
    /\ containers = {}
    /\ proxies = {}
    /\ provision = NoProvision
    /\ proxy_response = Resp("none", 0, "")
    /\ profiles = << >>
    /\ bot_login = NoBotLogin

\* the steps of the background runs, scrape_posts answering from harvests
BatchSteps(harvests) ==
    \/ \E r \in DOMAIN runs, i \in TaskIds, d \in harvests : sync_scrape_batch_scrape(r, i, d)
    \/ \E r \in DOMAIN runs, i \in TaskIds : sync_scrape_batch_raise(r, i)
    \/ \E r \in DOMAIN runs, i \in TaskIds : sync_scrape_batch_save(r, i)
    \/ \E r \in DOMAIN runs, i \in TaskIds : sync_scrape_batch_commit(r, i)
    \/ \E r \in DOMAIN runs : scrape_batches_finalize(r)
    \/ \E r \in DOMAIN runs, i \in TaskIds : sync_scrape_post_begin(r, i)
    \/ \E r \in DOMAIN runs, i \in TaskIds : sync_scrape_post_raise(r, i)
    \/ \E r \in DOMAIN runs, i \in TaskIds, o \in ItemOutcomes, t \in ScrapedTexts :
          sync_scrape_post_item(r, i, o, t)
    \/ \E r \in DOMAIN runs, i \in TaskIds : sync_scrape_post_return(r, i)
    \/ \E r \in DOMAIN runs : scrape_post_batches_finalize(r)

\* the requests of the scan API
Requests(max_pages, bot_tables, api_tables, sizes) ==
    \/ \E n \in PaginationNames, m \in max_pages : enumerate_pages(n, m)
    \/ \E n \in PostScanNames, pn \in PaginationNames, t \in bot_tables : enumerate_posts(n, pn, t)
    \/ \E id \in PostScanIds, t \in bot_tables : marketplace_start_post_scan(id, t)
    \/ \E n \in DetailScanNames, sn \in PostScanNames, size \in sizes, u \in SiteUrls :
          create_post_scan(n, sn, size, u)
    \/ \E id \in DetailScanIds, t \in bot_tables, a \in api_tables : posts_start_post_scan(id, t, a)

Deletes ==
    \/ \E n \in PaginationNames : delete_pagination_scan(n)
    \/ \E id \in PostScanIds : marketplace_delete_post_scan(id)
    \/ \E id \in DetailScanIds : posts_delete_post_scan(id)

\* ------------------------------------------------------------------------
\* Spec: the scan lifecycle under every request and registry content, the runs
\* having one batch
\* ------------------------------------------------------------------------
ScanMaxPages == {0, 5}
Harvests == { [t \in {1} |-> PostA] }
DetailBatchSizes == {-1, 0, 1}

Next ==
    \/ Requests(ScanMaxPages, BotTables, ApiTables, DetailBatchSizes)
    \/ \E n \in PaginationNames : delete_pagination_scan(n)
    \/ BatchSteps(Harvests)

Spec == Init /\ [][Next]_vars

\* ------------------------------------------------------------------------
\* SpecBatches: the runs of one listing scan and one post-detail scan with three
\* batches on two bots, every request finding the full registry
\* ------------------------------------------------------------------------
BatchMaxPages == {21}
BatchBotTables == {t \in BotTables : Len(t) = 5}
BatchApiTables == { {"translation_api", "iab_api"} }
BatchHarvests == { [t \in {1} |-> PostA], [t \in {1} |-> PostB], [t \in {1, 2, 3} |-> PostA] }
BatchSizes == {1}

NextBatches ==
    \/ Requests(BatchMaxPages, BatchBotTables, BatchApiTables, BatchSizes)
    \/ BatchSteps(BatchHarvests)

SpecBatches == Init /\ [][NextBatches]_vars

\* ------------------------------------------------------------------------
\* SpecPagination: pagination scans created for every max_page up to MaxPage
\* ------------------------------------------------------------------------
PageInputs == (-1)..MaxPage

NextPagination ==
    \/ \E n \in PaginationNames, m \in PageInputs : enumerate_pages(n, m)
    \/ \E n \in PaginationNames : delete_pagination_scan(n)

SpecPagination == Init /\ [][NextPagination]_vars

\* ------------------------------------------------------------------------
\* SpecLogin: calls of login_to_tor_website against every environment; SpecLoginFair
\* adds that the loop of a call in progress keeps running
\* ------------------------------------------------------------------------
NextLogin ==
    \/ \E env \in LoginEnvs : login_to_tor_website(env)
    \/ \E event \in LoginEvents : login_attempt(event)

SpecLogin == Init /\ [][NextLogin]_vars

SpecLoginFair == SpecLogin /\ WF_vars(\E event \in LoginEvents : login_attempt(event))

\* ------------------------------------------------------------------------
\* SpecCrash: the scan lifecycle of Spec with the server process ending at any time
\* ------------------------------------------------------------------------
NextCrash ==
    \/ Requests(ScanMaxPages, BotTables, ApiTables, DetailBatchSizes)
    \/ BatchSteps(Harvests)
    \/ process_crash

SpecCrash == Init /\ [][NextCrash]_vars

\* ------------------------------------------------------------------------
\* SpecItems: one listing scan of three posts and one post-detail scan over them in
\* batches of two posts, every request finding the full registry
\* ------------------------------------------------------------------------
ItemMaxPages == {5}
ItemHarvests == { [t \in {1, 2, 3} |-> PostA] }
ItemBatchSizes == {2}

NextItems ==
    \/ Requests(ItemMaxPages, BatchBotTables, BatchApiTables, ItemBatchSizes)
    \/ BatchSteps(ItemHarvests)

SpecItems == Init /\ [][NextItems]_vars

\* ------------------------------------------------------------------------
\* SpecCaptcha: calls of login_to_tor_website whose CAPTCHA solver gives every answer
\* of CaptchaAnswers
\* ------------------------------------------------------------------------
CaptchaEnvs == {env \in LoginEnvs : env.solver = "unreliable" /\ env.site = "steady"}

NextCaptcha ==
    \/ \E env \in CaptchaEnvs : login_to_tor_website(env)
    \/ \E captcha_answer \in CaptchaAnswers : solve_captcha(captcha_answer)

SpecCaptcha == Init /\ [][NextCaptcha]_vars

\* ------------------------------------------------------------------------
\* SpecLoop: a listing scan, logins and proxy creations served by one event loop
\* ------------------------------------------------------------------------
LoopEnvs ==
    {env \in LoginEnvs :
        env.credentials = "correct" /\ env.solver = "accepted" /\ env.site = "steady"}

NextLoop ==
    \/ \E n \in PaginationNames, m \in ItemMaxPages : enumerate_pages(n, m)
    \/ \E n \in PostScanNames, pn \in PaginationNames, t \in BatchBotTables :
          enumerate_posts(n, pn, t)
    \/ \E id \in PostScanIds, t \in BatchBotTables : marketplace_start_post_scan(id, t)
    \/ \E r \in DOMAIN runs, i \in TaskIds, d \in Harvests : sync_scrape_batch_scrape(r, i, d)
    \/ \E r \in DOMAIN runs, i \in TaskIds : sync_scrape_batch_raise(r, i)
    \/ \E r \in DOMAIN runs, i \in TaskIds : sync_scrape_batch_save(r, i)
    \/ \E r \in DOMAIN runs, i \in TaskIds : sync_scrape_batch_commit(r, i)
    \/ \E r \in DOMAIN runs : scrape_batches_finalize(r)
    \/ \E id \in PostScanIds : get_post_scan_status(id)
    \/ \E env \in LoopEnvs : login_to_tor_website(env)
    \/ \E event \in LoginEvents : login_attempt(event)
    \/ \E name \in ProxyNames : create_proxy(name)
    \/ \E result \in ComposeResults : compose_up(result)
    \/ \E opened \in BOOLEAN : wait_for_port(opened)
    \/ \E result \in InspectResults : docker_inspect(result)
    \/ \E found \in BOOLEAN : fetch_tor_exit_ip(found)
    \/ create_and_start_proxy_finally
    \/ create_proxy_answer

SpecLoop == Init /\ [][NextLoop]_vars

\* ------------------------------------------------------------------------
\* SpecContention: two listing scans over one pagination scan, the registry holding
\* one listing bot
\* ------------------------------------------------------------------------
ContentionBotTables == {t \in BotTables : Len(t) = 2 /\ t[1].session = "session=c1"}

NextContention ==
    \/ \E n \in PaginationNames, m \in ItemMaxPages : enumerate_pages(n, m)
    \/ \E n \in ContentionScanNames, pn \in PaginationNames, t \in ContentionBotTables :
          enumerate_posts(n, pn, t)
    \/ \E id \in PostScanIds, t \in ContentionBotTables : marketplace_start_post_scan(id, t)
    \/ \E r \in DOMAIN runs, i \in TaskIds, d \in Harvests : sync_scrape_batch_scrape(r, i, d)
    \/ \E r \in DOMAIN runs, i \in TaskIds : sync_scrape_batch_raise(r, i)
    \/ \E r \in DOMAIN runs, i \in TaskIds : sync_scrape_batch_save(r, i)
    \/ \E r \in DOMAIN runs, i \in TaskIds : sync_scrape_batch_commit(r, i)
    \/ \E r \in DOMAIN runs : scrape_batches_finalize(r)

SpecContention == Init /\ [][NextContention]_vars

\* ------------------------------------------------------------------------
\* SpecBotLogin: bot profiles are created and perform_bot_login is run over them, each
\* login finding the credentials right or wrong
\* ------------------------------------------------------------------------
BotLoginEnvs == {e \in LoginEnvs : e.solver = "accepted" /\ e.site = "steady"}

NextBotLogin ==
    \/ \E u \in ProfileNames, t \in TorProxies, c \in StoredSessions : create_bot_profile(u, t, c)
    \/ perform_bot_login
    \/ \E env \in BotLoginEnvs : perform_bot_login_profile(env)
    \/ \E event \in LoginEvents : login_attempt(event)
    \/ \E cookie \in {NULL, SessionCookie} : perform_bot_login_store(cookie)
    \/ perform_bot_login_answer

SpecBotLogin == Init /\ [][NextBotLogin]_vars

\* ------------------------------------------------------------------------
\* SpecRunFair: runs of a listing scan next to calls of login_to_tor_website whose
\* CAPTCHA solver is unreliable. No scan is deleted and the process does not end. The
\* executor threads run the batches they were given and a login loop goes on to its next
\* iteration (weak fairness). The coroutine of a run is resumed from the FIFO ready queue
\* of the event loop as soon as the handler that holds the loop returns, however often
\* handlers take the loop again (strong fairness).
\* ------------------------------------------------------------------------
RunFairEnvs == {e \in LoginEnvs : e.credentials = "correct" /\ e.solver = "unreliable"
                                  /\ e.site = "steady"}

\* an iteration of the login loop after the MaxLoginIterations the counters follow: the
\* loop goes on as before, fetches, solves, submissions and cooldowns staying at what
\* they had reached
login_attempt_beyond(event) ==
    /\ login.pc = "running"
    /\ login.fetches = MaxLoginIterations
    /\ LoginEventPossible(login.env, event)
    /\ login' = [login EXCEPT
           !.last = event,
           !.pc = IF Retryable(event) THEN "running" ELSE "returned",
           !.attempt_count = IF Retryable(event) THEN attempt_count_after(@) ELSE @,
           !.cookie = IF event = "success" THEN SessionCookie ELSE NULL]
    /\ UNCHANGED <<containers, proxies, provision, proxy_response>>
    /\ UNCHANGED scan_vars
    /\ UNCHANGED bot_vars

LoginLoop ==
    \/ \E event \in LoginEvents : login_attempt(event)
    \/ \E event \in LoginEvents : login_attempt_beyond(event)

ListingSteps ==
    \/ \E r \in DOMAIN runs, i \in TaskIds, d \in Harvests : sync_scrape_batch_scrape(r, i, d)
    \/ \E r \in DOMAIN runs, i \in TaskIds : sync_scrape_batch_raise(r, i)
    \/ \E r \in DOMAIN runs, i \in TaskIds : sync_scrape_batch_save(r, i)
    \/ \E r \in DOMAIN runs, i \in TaskIds : sync_scrape_batch_commit(r, i)

NextRunFair ==
    \/ \E n \in PaginationNames, m \in ItemMaxPages : enumerate_pages(n, m)
    \/ \E n \in PostScanNames, pn \in PaginationNames, t \in ContentionBotTables :
          enumerate_posts(n, pn, t)
    \/ \E id \in PostScanIds, t \in ContentionBotTables : marketplace_start_post_scan(id, t)
    \/ ListingSteps
    \/ \E r \in DOMAIN runs : scrape_batches_finalize(r)
    \/ \E env \in RunFairEnvs : login_to_tor_website(env)
    \/ \E event \in LoginEvents : login_attempt(event)
    \/ \E event \in LoginEvents : login_attempt_beyond(event)

SpecRunFair ==
    /\ Init /\ [][NextRunFair]_vars
    /\ WF_vars(ListingSteps)
    /\ SF_vars(\E r \in DOMAIN runs : scrape_batches_finalize(r))
    /\ WF_vars(LoginLoop)

\* ------------------------------------------------------------------------
\* Specification of the proxy routes
\* ------------------------------------------------------------------------
NextProxy ==
    \/ \E name \in ProxyNames : create_proxy(name)
    \/ \E result \in ComposeResults : compose_up(result)
    \/ \E opened \in BOOLEAN : wait_for_port(opened)
    \/ \E result \in InspectResults : docker_inspect(result)
    \/ \E found \in BOOLEAN : fetch_tor_exit_ip(found)
    \/ create_and_start_proxy_finally
    \/ create_proxy_answer
    \/ \E name \in ProxyNames, rm_ok \in BOOLEAN : delete_proxy(name, rm_ok)
    \/ list_proxies

SpecProxy == Init /\ [][NextProxy]_vars

\* ------------------------------------------------------------------------
\* SpecDelete: scans deleted and created again while their runs are in flight
\* ------------------------------------------------------------------------
NextDelete ==
    \/ Requests({5}, BatchBotTables, BatchApiTables, BatchSizes)
    \/ Deletes
    \/ BatchSteps(Harvests)

SpecDelete == Init /\ [][NextDelete]_vars

\* ========================================================================
\* Properties
\* ========================================================================

\* C1: when a listing run ends and at least one of its batches raised, the scan is left
\* Stopped with a completion time; it is left Completed only when no batch failed.
C1_ListingFailureStopsScan ==
    [][\A r \in DOMAIN runs :
          (runs[r].kind = "listing" /\ runs[r].phase = "gather" /\ runs'[r].phase = "done")
          => LET scan == post_scans'[runs[r].scan_id] IN
             /\ scan.completion_date # NoDate
             /\ (FailedTasks(runs[r]) # {}) => (scan.status = STOPPED)
             /\ (scan.status = COMPLETED) => (FailedTasks(runs[r]) = {})]_vars

\* C2: when a post-detail run ends, the scan is left Stopped with a completion time if a
\* batch task returned an exception, and Completed with a completion time if no failure
\* was collected; the rows committed during the run are still stored in both cases.
C2_DetailFinalization ==
    [][\A r \in DOMAIN runs :
          (runs[r].kind = "detail" /\ runs[r].phase = "gather" /\ runs'[r].phase = "done")
          => LET scan == detail_scans'[runs[r].scan_id] IN
             /\ (FailedTasks(runs[r]) # {})
                    => (scan.status = STOPPED /\ scan.completion_date = now)
             /\ (FailedTasks(runs[r]) = {} /\ runs[r].scan_errors = 0)
                    => (scan.status = COMPLETED /\ scan.completion_date = now)
             /\ scan.completion_date # NoDate
             /\ post_details' = post_details]_vars

\* a post-detail run has ended with a batch that raised and its scan is Stopped with a
\* completion time
C2_Witness ==
    \E r \in DOMAIN runs :
        /\ runs[r].kind = "detail" /\ runs[r].phase = "done" /\ runs[r].failed > 0
        /\ detail_scans[runs[r].scan_id] # NoRow
        /\ detail_scans[runs[r].scan_id].status = STOPPED
        /\ detail_scans[runs[r].scan_id].completion_date # NoDate

\* C3: a scan of either kind changes status only Stopped -> Running, Running -> Completed
\* or Running -> Stopped; in particular a Completed scan never becomes Running again.
C3_CompletedScanNeverRestarted ==
    [][/\ \A id \in PostScanIds :
            (/\ post_scans[id] # NoRow /\ post_scans'[id] # NoRow
             /\ post_scans'[id].status # post_scans[id].status)
            => <<post_scans[id].status, post_scans'[id].status>> \in
                   {<<STOPPED, RUNNING>>, <<RUNNING, COMPLETED>>, <<RUNNING, STOPPED>>}
       /\ \A id \in DetailScanIds :
            (/\ detail_scans[id] # NoRow /\ detail_scans'[id] # NoRow
             /\ detail_scans'[id].status # detail_scans[id].status)
            => <<detail_scans[id].status, detail_scans'[id].status>> \in
                   {<<STOPPED, RUNNING>>, <<RUNNING, COMPLETED>>, <<RUNNING, STOPPED>>}]_vars

\* C4: a start request for a scan that is Running, of either kind, is answered with the
\* error "Scan is already running"; the scan row (status, start and completion time) is
\* unchanged and no run is launched.
C4_StartOnRunningRejected ==
    [][/\ \A id \in PostScanIds, t \in BotTables :
            (/\ post_scans[id] # NoRow /\ post_scans[id].status = RUNNING
             /\ marketplace_start_post_scan(id, t))
            => /\ response'.code = 400 /\ response'.detail = "Scan is already running"
               /\ UNCHANGED <<post_scans, runs>>
       /\ \A id \in DetailScanIds, t \in BotTables, a \in ApiTables :
            (/\ detail_scans[id] # NoRow /\ detail_scans[id].status = RUNNING
             /\ posts_start_post_scan(id, t, a))
            => /\ response'.code = 400 /\ response'.detail = "Scan is already running"
               /\ UNCHANGED <<detail_scans, runs>>]_vars

\* a start request for a Running post-detail scan has been answered 400 and the scan
\* still has the one run that made it Running
C4_Witness ==
    \E id \in DetailScanIds :
        /\ detail_scans[id] # NoRow /\ detail_scans[id].status = RUNNING
        /\ response = Resp("posts_start_post_scan", 400, "Scan is already running")
        /\ Cardinality({r \in DOMAIN runs : /\ runs[r].kind = "detail"
                                            /\ runs[r].scan_id = id
                                            /\ runs[r].phase = "gather"}) = 1

\* C5: a start request is accepted (the scan enters Running) only if bot_profiles holds a
\* bot of the scan's purpose whose session is neither NULL nor the empty string and, for
\* a post-detail scan, its source listing scan exists and is Completed; every other start
\* request is rejected and leaves the scan rows unchanged.
C5_RunningRequiresEligibleBot ==
    [][/\ \A id \in PostScanIds, t \in BotTables :
            marketplace_start_post_scan(id, t)
            => LET eligible == \E k \in DOMAIN t : /\ t[k].purpose = SCRAPE_MARKETPLACE
                                                   /\ t[k].session \notin {NULL, ""}
               IN /\ (response'.code = 200) => eligible
                  /\ (response'.code # 200) => UNCHANGED <<post_scans, runs>>
       /\ \A id \in DetailScanIds, t \in BotTables, a \in ApiTables :
            posts_start_post_scan(id, t, a)
            => LET eligible == \E k \in DOMAIN t : /\ t[k].purpose = SCRAPE_POST
                                                   /\ t[k].session \notin {NULL, ""}
                   source == \E i \in PostScanIds :
                                 /\ post_scans[i] # NoRow
                                 /\ post_scans[i].scan_name = detail_scans[id].source_scan_name
                                 /\ post_scans[i].status = COMPLETED
               IN /\ (response'.code = 200) => (eligible /\ source)
                  /\ (response'.code # 200) => UNCHANGED <<detail_scans, runs>>]_vars

\* C6: a start request for a listing scan whose pagination scan has no batch is rejected,
\* with the error "No batches available" when the request gets as far as the batches
\* (the scan is not Running and a bot is active); the scan row is unchanged, so the scan
\* does not become Running, and no run is launched.
C6_ZeroBatchStartRejected ==
    [][\A id \in PostScanIds, t \in BotTables :
          (/\ post_scans[id] # NoRow
           /\ pagination_scans[post_scans[id].pagination_scan_name] # NoRow
           /\ pagination_scans[post_scans[id].pagination_scan_name].batches = << >>
           /\ marketplace_start_post_scan(id, t))
          => /\ response'.code \in {400, 404}
             /\ UNCHANGED <<post_scans, runs>>
             /\ (/\ post_scans[id].status # RUNNING
                 /\ \E k \in DOMAIN t : t[k].purpose = SCRAPE_MARKETPLACE /\ t[k].session # NULL)
                => (response'.code = 400 /\ response'.detail = "No batches available")]_vars

\* a start request has been answered "No batches available" for a listing scan that is
\* not Running and whose pagination scan has no batch
C6_Witness ==
    \E id \in PostScanIds :
        /\ post_scans[id] # NoRow /\ post_scans[id].status = STOPPED
        /\ pagination_scans[post_scans[id].pagination_scan_name] # NoRow
        /\ pagination_scans[post_scans[id].pagination_scan_name].max_page = 0
        /\ pagination_scans[post_scans[id].pagination_scan_name].batches = << >>
        /\ response = Resp("marketplace_start_post_scan", 400, "No batches available")
        /\ runs = << >>

\* C7: marketplace_posts holds at most one row for a (scan, timestamp, title, link),
\* whatever the interleaving of the batches that harvest it.
C7_OneRowPerNaturalKey ==
    \A i, j \in DOMAIN marketplace_posts :
        (/\ marketplace_posts[i].scan_id = marketplace_posts[j].scan_id
         /\ marketplace_posts[i].timestamp = marketplace_posts[j].timestamp
         /\ marketplace_posts[i].title = marketplace_posts[j].title
         /\ marketplace_posts[i].link = marketplace_posts[j].link)
        => i = j

\* two batches of a run harvested the same post, both have returned, and the table
\* holds the post once
C7_Witness ==
    \E r \in DOMAIN runs :
        /\ runs[r].kind = "listing" /\ runs[r].phase = "gather"
        /\ \E i, j \in DOMAIN runs[r].tasks, ts \in HarvestTimestamps :
            /\ i # j
            /\ runs[r].tasks[i].st = "done" /\ runs[r].tasks[j].st = "done"
            /\ ts \in DOMAIN runs[r].tasks[i].posts_data
            /\ ts \in DOMAIN runs[r].tasks[j].posts_data
            /\ runs[r].tasks[i].posts_data[ts] = runs[r].tasks[j].posts_data[ts]
            /\ Cardinality({k \in DOMAIN marketplace_posts :
                   /\ marketplace_posts[k].scan_id = runs[r].scan_id
                   /\ marketplace_posts[k].timestamp = ts
                   /\ marketplace_posts[k].title = runs[r].tasks[i].posts_data[ts].title
                   /\ marketplace_posts[k].link = runs[r].tasks[i].posts_data[ts].link}) = 1

\* C8: in a run of either kind one of whose batches raised, every batch that ran to its
\* end has its harvested items stored: the posts it scraped for a listing run, the posts
\* it scraped, translated and classified for a post-detail run.
C8_SiblingBatchesCommit ==
    \A r \in DOMAIN runs :
        (runs[r].phase = "gather" /\ FailedTasks(runs[r]) # {})
        => \A i \in DOMAIN runs[r].tasks :
              (runs[r].tasks[i].st = "done")
              => IF runs[r].kind = "listing"
                 THEN \A ts \in DOMAIN runs[r].tasks[i].posts_data :
                         \E k \in DOMAIN marketplace_posts :
                             /\ marketplace_posts[k].scan_id = runs[r].scan_id
                             /\ marketplace_posts[k].timestamp = ts
                             /\ marketplace_posts[k].title = runs[r].tasks[i].posts_data[ts].title
                             /\ marketplace_posts[k].link = runs[r].tasks[i].posts_data[ts].link
                 ELSE \A p \in runs[r].tasks[i].enriched :
                         \E k \in DOMAIN post_details :
                             /\ post_details[k].scan_id = runs[r].scan_id
                             /\ post_details[k].timestamp = runs[r].tasks[i].batch_posts[p].timestamp
                             /\ post_details[k].batch_name = runs[r].tasks[i].batch_name

\* C9: in a run of either kind the batch of 0-based index i is executed with the bot at
\* position i mod P of the run's pool of P bots.
C9_BatchUsesPoolBotByIndex ==
    \A r \in DOMAIN runs :
        (runs[r].phase = "gather")
        => /\ Len(runs[r].pool) > 0
           /\ \A k \in DOMAIN runs[r].tasks :
                 runs[r].tasks[k].bot = runs[r].pool[((k - 1) % Len(runs[r].pool)) + 1]

\* the third batch of a post-detail run with a pool of two bots has been taken by a
\* worker, with the first bot of the pool
C9_Witness ==
    \E r \in DOMAIN runs :
        /\ runs[r].kind = "detail" /\ runs[r].phase = "gather"
        /\ Len(runs[r].pool) = 2 /\ Len(runs[r].tasks) = 3
        /\ runs[r].tasks[3].st \in {"running", "done"}
        /\ runs[r].tasks[3].bot = runs[r].pool[1]
        /\ runs[r].tasks[3].bot # runs[r].pool[2]

\* C10: for max_page >= 1 the stored partition has ceil(max_page / 10) batches keyed
\* "1".."n" in order, each of one to ten URLs; every page of 1..max_page occurs exactly
\* once; the pages descend from max_page to 1 through the batches, batch "1" first.
C10_PaginationPartition ==
    \A n \in PaginationNames :
        (pagination_scans[n] # NoRow /\ pagination_scans[n].max_page >= 1)
        => LET m == pagination_scans[n].max_page
               b == pagination_scans[n].batches
           IN /\ Len(b) * 10 >= m /\ (Len(b) - 1) * 10 < m
              /\ \A k \in DOMAIN b : b[k].key = ToString(k) /\ Len(b[k].urls) \in 1..10
              /\ \A page \in 1..m :
                    Cardinality({kj \in (DOMAIN b) \X (1..10) :
                        kj[2] <= Len(b[kj[1]].urls) /\ b[kj[1]].urls[kj[2]] = page}) = 1
              /\ b[1].urls[1] = m
              /\ \A k \in DOMAIN b :
                    /\ \A j \in 1..(Len(b[k].urls) - 1) : b[k].urls[j] = b[k].urls[j + 1] + 1
                    /\ (k < Len(b)) => (b[k].urls[Len(b[k].urls)] = b[k + 1].urls[1] + 1)

\* a pagination scan of 23 pages is stored in three batches, the last one of three pages
C10_Witness ==
    \E n \in PaginationNames :
        /\ pagination_scans[n] # NoRow
        /\ pagination_scans[n].max_page = 23
        /\ Len(pagination_scans[n].batches) = 3
        /\ Len(pagination_scans[n].batches[3].urls) = 3
        /\ pagination_scans[n].batches[3].urls[3] = 1

\* C11: for max_page < 1 create_pagination_batches returns the empty partition and
\* raises nothing: the pagination scan is stored, with zero batches.
C11_EmptyPartitionBelowOne ==
    \A n \in PaginationNames :
        (pagination_scans[n] # NoRow /\ pagination_scans[n].max_page < 1)
        => (pagination_scans[n].batches = << >> /\ Len(pagination_scans[n].batches) = 0)

\* a pagination scan submitted with max_page = -1 is stored and has no batch
C11_Witness ==
    \E n \in PaginationNames :
        /\ pagination_scans[n] # NoRow
        /\ pagination_scans[n].max_page = -1
        /\ pagination_scans[n].batches = << >>

\* C12: an attempt whose submission is answered "invalid username or password" ends the
\* call on that attempt with the result None and without a cooldown; after it the call
\* fetches no login form, solves no challenge and submits nothing more.
C12_InvalidCredentialsEndsCall ==
    [][/\ login_attempt("invalid_credentials")
            => /\ login'.pc = "returned" /\ login'.cookie = NULL
               /\ profile_session(login') = NULL
               /\ login'.cooldowns = login.cooldowns
               /\ login'.attempt_count = login.attempt_count
               /\ login'.fetches = login.fetches + 1
               /\ login'.submissions = login.submissions + 1
       /\ (login.pc = "returned" /\ login.last = "invalid_credentials")
            => \/ login' = login
               \/ /\ login'.pc = "running" /\ login'.last = "none"
                  /\ login'.fetches = 0 /\ login'.solves = 0 /\ login'.submissions = 0]_vars

\* a call has returned None on its first attempt, answered "invalid username or
\* password", against a site that answers every request
C12_Witness ==
    /\ login.pc = "returned" /\ login.last = "invalid_credentials"
    /\ login.env.credentials = "wrong" /\ login.env.site = "steady"
    /\ login.cookie = NULL
    /\ login.fetches = 1 /\ login.submissions = 1 /\ login.cooldowns = 0

\* C13: a call with correct credentials, a solver that returns the accepted code and a
\* site that answers every request never enters the cooldown, makes at most max_attempts
\* attempts, and returns a session whose session cookie is not empty.
C13_GoodLoginReturnsToken ==
    /\ []((/\ login.pc \in {"running", "returned"}
           /\ login.env.credentials = "correct"
           /\ login.env.solver = "accepted"
           /\ login.env.site = "steady")
          => /\ login.cooldowns = 0
             /\ login.fetches <= 9
             /\ (login.pc = "returned")
                    => (login.last = "success" /\ profile_session(login) \notin {NULL, "", "session="}))
    /\ ((/\ login.pc = "running"
         /\ login.env.credentials = "correct"
         /\ login.env.solver = "accepted"
         /\ login.env.site = "steady")
        ~> (login.pc = "returned" /\ login.cookie # NULL /\ login.cookie # ""))

\* a call with correct credentials and an accepted code has returned its session after
\* one attempt and no cooldown
C13_Witness ==
    /\ login.pc = "returned" /\ login.last = "success"
    /\ login.env.credentials = "correct" /\ login.env.solver = "accepted"
    /\ login.env.site = "steady"
    /\ profile_session(login) = "session=abc123"
    /\ login.fetches = 1 /\ login.cooldowns = 0

\* C14: attempt_count is in 0..8 at the start of every attempt; every retryable outcome
\* keeps the call running and adds one to attempt_count, the ninth one entering the
\* cooldown and putting attempt_count back to zero; a call returns only on a successful
\* login or on invalid credentials.
C14_RetryableNeverGivesUp ==
    [][(login.pc = "running" /\ login' # login)
       => /\ login.attempt_count \in 0..8
          /\ (login'.last \in {"request_error", "captcha_not_found", "unexpected_error",
                               "solve_failed", "submit_error", "invalid_captcha",
                               "unexpected_response"})
                => /\ login'.pc = "running"
                   /\ IF login.attempt_count + 1 = 9
                      THEN login'.attempt_count = 0 /\ login'.cooldowns = login.cooldowns + 1
                      ELSE /\ login'.attempt_count = login.attempt_count + 1
                           /\ login'.cooldowns = login.cooldowns
          /\ (login'.pc = "returned") => (login'.last \in {"success", "invalid_credentials"})
          /\ login'.attempt_count \in 0..8]_vars

\* a call has gone through two cooldowns, its counter back at zero, and is still running
C14_Witness ==
    /\ login.pc = "running"
    /\ login.cooldowns = 2 /\ login.attempt_count = 0
    /\ login.fetches = 18
    /\ login.last = "solve_failed"

\* C15: a post whose title and content are both detected as English and which is scraped
\* and classified is enriched without a call of translate_string and is stored with
\* is_translated false and a translated text equal to its original text.
C15_EnglishPostStoredUntranslated ==
    \A r \in DOMAIN runs :
        (runs[r].kind = "detail" /\ runs[r].phase = "gather")
        => \A i \in DOMAIN runs[r].tasks :
              \A p \in runs[r].tasks[i].english :
                 /\ p \notin runs[r].tasks[i].translate_calls
                 /\ \E k \in DOMAIN post_details :
                       /\ post_details[k].scan_id = runs[r].scan_id
                       /\ post_details[k].timestamp = runs[r].tasks[i].batch_posts[p].timestamp
                       /\ post_details[k].batch_name = runs[r].tasks[i].batch_name
                       /\ post_details[k].is_translated = FALSE
                       /\ post_details[k].translated_text = post_details[k].original_text

\* C16: when create_and_start_proxy fails at or after docker compose up (compose failure,
\* port not open in time, no container address, every exit-IP lookup failed), the forced
\* removal of its container has been issued by the time the error is with create_proxy,
\* and Docker holds no container of that name.
C16_FailedProvisionCleansUp ==
    (provision.pc \in {"returning", "answered"} /\ ~provision.success)
    => /\ provision.removed
       /\ provision.container_name \notin containers

C16_Witness ==
    /\ provision.pc = "answered"
    /\ provision.error = "port_timeout"
    /\ provision.removed
    /\ provision.container_name \notin containers
    /\ proxy_response = Resp("create_proxy", 500, "Failed to create proxy")

\* C17: delete_proxy for a name that has no row in proxies (the proxy was deleted before,
\* or never existed) answers without an error and leaves the proxies table unchanged.
C17_DeleteOfMissingProxyNoError ==
    [][\A name \in ProxyNames :
          (ProxyRow(name) = NoRow /\ \E rm_ok \in BOOLEAN : delete_proxy(name, rm_ok))
          => (proxy_response'.code < 400 /\ proxies' = proxies)]_vars

\* C18: within one run, no two batches given the same bot execute at the same time.
C18_OneBatchPerBotAtATime ==
    \A r \in DOMAIN runs :
        runs[r].phase = "gather"
        => \A i, j \in Executing(runs[r]) :
              i # j => runs[r].tasks[i].bot # runs[r].tasks[j].bot

\* C19: within one run, the number of batches executing at the same time is at most the
\* number of bots of the pool read at scan start.
C19_ExecutingAtMostPoolSize ==
    \A r \in DOMAIN runs :
        runs[r].phase = "gather" => Cardinality(Executing(runs[r])) <= Len(runs[r].pool)

C19_Witness ==
    \E r \in DOMAIN runs :
        /\ runs[r].phase = "gather"
        /\ Len(runs[r].pool) = 2
        /\ Cardinality(Executing(runs[r])) = 2
        /\ Queued(runs[r]) # {}

\* C20: a run stops gathering, and the status of a scan leaves Running, only in a step of
\* a run of that scan none of whose batches is queued or executing; the run ended has no
\* batch left.
C20_FinalizedAfterBatchesEnded ==
    [][/\ \A r \in DOMAIN runs :
             (runs[r].phase = "gather" /\ runs'[r].phase # "gather")
             => /\ Executing(runs[r]) = {} /\ Queued(runs[r]) = {}
                /\ runs'[r].tasks = << >>
       /\ \A scan_id \in PostScanIds :
             ( /\ post_scans[scan_id] # NoRow /\ post_scans'[scan_id] # NoRow
               /\ post_scans[scan_id].status = RUNNING
               /\ post_scans'[scan_id].status # RUNNING )
             => \E r \in DOMAIN runs :
                   /\ runs[r].kind = "listing" /\ runs[r].scan_id = scan_id
                   /\ runs[r].phase = "gather" /\ runs'[r].phase # "gather"
                   /\ Executing(runs[r]) = {} /\ Queued(runs[r]) = {}
       /\ \A scan_id \in DetailScanIds :
             ( /\ detail_scans[scan_id] # NoRow /\ detail_scans'[scan_id] # NoRow
               /\ detail_scans[scan_id].status = RUNNING
               /\ detail_scans'[scan_id].status # RUNNING )
             => \E r \in DOMAIN runs :
                   /\ runs[r].kind = "detail" /\ runs[r].scan_id = scan_id
                   /\ runs[r].phase = "gather" /\ runs'[r].phase # "gather"
                   /\ Executing(runs[r]) = {} /\ Queued(runs[r]) = {}
      ]_vars

C20_Witness ==
    \E r \in DOMAIN runs :
        /\ runs[r].kind = "listing" /\ runs[r].phase = "done"
        /\ runs[r].failed = 1
        /\ post_scans[runs[r].scan_id] # NoRow
        /\ post_scans[runs[r].scan_id].status = COMPLETED
        /\ Len(marketplace_posts) >= 2

\* C21: a scan that is Running with no run in flight (the process ended during its run)
\* keeps its row and the status Running in every step, and every start request for it is
\* answered 400 "Scan is already running".
C21_CrashedScanStaysRunning ==
    [][/\ \A id \in PostScanIds :
             (post_scans[id] # NoRow /\ post_scans[id].status = RUNNING
                 /\ ~RunInFlight("listing", id))
             => /\ post_scans'[id] # NoRow /\ post_scans'[id].status = RUNNING
                /\ \A t \in BotTables :
                      marketplace_start_post_scan(id, t)
                      => response' = Resp("marketplace_start_post_scan", 400,
                                          "Scan is already running")
       /\ \A id \in DetailScanIds :
             (detail_scans[id] # NoRow /\ detail_scans[id].status = RUNNING
                 /\ ~RunInFlight("detail", id))
             => /\ detail_scans'[id] # NoRow /\ detail_scans'[id].status = RUNNING
                /\ \A t \in BotTables, a \in ApiTables :
                      posts_start_post_scan(id, t, a)
                      => response' = Resp("posts_start_post_scan", 400,
                                          "Scan is already running")
      ]_vars

C21_Witness ==
    \E id \in DetailScanIds, r \in DOMAIN runs :
        /\ runs[r].kind = "detail" /\ runs[r].scan_id = id /\ runs[r].phase = "killed"
        /\ detail_scans[id] # NoRow /\ detail_scans[id].status = RUNNING
        /\ ~RunInFlight("detail", id)
        /\ response = Resp("posts_start_post_scan", 400, "Scan is already running")

\* C22: a post-detail run none of whose batch tasks raised leaves its scan Completed,
\* whatever posts were skipped inside the batches.
C22_ItemSkipsEndCompleted ==
    [][\A r \in DOMAIN runs :
          ( /\ runs[r].kind = "detail" /\ runs[r].phase = "gather"
            /\ runs'[r].phase = "done"
            /\ FailedTasks(runs[r]) = {} )
          => detail_scans'[runs[r].scan_id].status = COMPLETED]_vars

\* C23: in a post-detail batch a post that follows a skipped post and is itself scraped,
\* translated and classified is stored.
C23_LaterItemStoredAfterSkip ==
    \A r \in DOMAIN runs :
        (runs[r].kind = "detail" /\ runs[r].phase = "gather")
        => \A i \in DOMAIN runs[r].tasks :
              LET task == runs[r].tasks[i] IN
              \A p, q \in 1..(task.pos - 1) :
                 (p < q /\ p \notin task.enriched /\ q \in task.enriched)
                 => \E k \in DOMAIN post_details :
                       /\ post_details[k].scan_id = runs[r].scan_id
                       /\ post_details[k].timestamp = task.batch_posts[q].timestamp
                       /\ post_details[k].batch_name = task.batch_name

\* C24: a post whose page shows a timestamp other than the one the listing scan recorded
\* never gets as far as the insert, and every row of marketplace_post_details carries the
\* timestamp of a listed post.
C24_TimestampMismatchNotInserted ==
    /\ \A r \in DOMAIN runs :
          (runs[r].kind = "detail" /\ runs[r].phase = "gather")
          => \A i \in DOMAIN runs[r].tasks :
                runs[r].tasks[i].mismatched \cap runs[r].tasks[i].enriched = {}
    /\ \A k \in DOMAIN post_details :
          \E j \in DOMAIN marketplace_posts :
              marketplace_posts[j].timestamp = post_details[k].timestamp

C24_Witness ==
    \E r \in DOMAIN runs :
        /\ runs[r].kind = "detail" /\ runs[r].phase = "gather"
        /\ \E i \in DOMAIN runs[r].tasks :
              /\ runs[r].tasks[i].mismatched = {1}
              /\ runs[r].tasks[i].enriched = {2}
              /\ runs[r].tasks[i].pos = 3
        /\ \A k \in DOMAIN post_details : post_details[k].timestamp # OtherTimestamp

\* C25: for a scraped post whose title or content is blank, or on which the language
\* detection raises, translate_string is called.
C25_BlankOrFailedDetectionTranslates ==
    [][\A r \in DOMAIN runs, i \in TaskIds, o \in ItemOutcomes, t \in ScrapedTexts :
          ( /\ "blank" \in {t[1], t[2]} \/ "undetectable" \in {t[1], t[2]}
            /\ o \notin {"scrape_error", "timestamp_mismatch"}
            /\ sync_scrape_post_item(r, i, o, t) )
          => runs[r].tasks[i].pos \in runs'[r].tasks[i].translate_calls]_vars

\* C26: solve_captcha returns a code only for an answer that holds exactly one run of
\* six or more characters of [A-Z0-9], that run being six long, and the code is that run.
C26_StrictCodeExtraction ==
    LET text == login.captcha_answer
        IsRun(a, b) == /\ a <= b
                       /\ \A k \in a..b : text[k] \in CodeChars
                       /\ (a = 1 \/ text[a - 1] \notin CodeChars)
                       /\ (b = Len(text) \/ text[b + 1] \notin CodeChars)
        LongRuns == {ab \in (1..Len(text)) \X (1..Len(text)) :
                        IsRun(ab[1], ab[2]) /\ ab[2] - ab[1] + 1 >= 6}
    IN login.captcha_text # NoCode
       => /\ Cardinality(LongRuns) = 1
          /\ \A ab \in LongRuns :
                /\ ab[2] - ab[1] + 1 = 6
                /\ login.captcha_text = SubSeq(text, ab[1], ab[2])

\* C27: while a login is in progress, a proxy is being created or a batch of a run is
\* executing, a request for the status of a scan can be served.
C27_StatusServedDuringBlockingWork ==
    ( \/ login.pc = "running"
      \/ Provisioning
      \/ \E r \in DOMAIN runs : runs[r].phase = "gather" /\ Executing(runs[r]) # {} )
    => ENABLED (\E id \in PostScanIds : get_post_scan_status(id))

\* C28: a start request for a listing scan that is not Running, with a listing bot that
\* has a session and a pagination scan that has batches, is accepted also while a run of
\* another listing scan is in flight with that bot: the scan becomes Running and its run
\* gets the same bot.
C28_StartNotLockedByOtherScan ==
    [][\A id \in PostScanIds, other \in PostScanIds, t \in ContentionBotTables :
          ( /\ id # other
            /\ post_scans[id] # NoRow /\ post_scans[id].status # RUNNING
            /\ RunInFlight("listing", other)
            /\ Len(runs) < MaxRuns
            /\ marketplace_start_post_scan(id, t) )
          => /\ response' = Resp("marketplace_start_post_scan", 200, "Post scan started")
             /\ post_scans'[id].status = RUNNING
             /\ post_scans'[other].status = RUNNING
             /\ \E r \in DOMAIN runs :
                   /\ runs[r].scan_id = other /\ runs[r].phase = "gather"
                   /\ runs'[Len(runs')].scan_id = id
                   /\ runs'[Len(runs')].pool = runs[r].pool]_vars

\* batches of two listing scans are executing at the same time with the same bot
C28_Witness ==
    \E r1, r2 \in DOMAIN runs :
        /\ runs[r1].scan_id # runs[r2].scan_id
        /\ runs[r1].kind = "listing" /\ runs[r2].kind = "listing"
        /\ runs[r1].phase = "gather" /\ runs[r2].phase = "gather"
        /\ post_scans[runs[r1].scan_id].status = RUNNING
        /\ post_scans[runs[r2].scan_id].status = RUNNING
        /\ \E i \in Executing(runs[r1]), j \in Executing(runs[r2]) :
              runs[r1].tasks[i].bot = runs[r2].tasks[j].bot

\* C29: a circuit that create_and_start_proxy has brought up (success is True) carries a
\* container name that no row of the proxies table holds.
C29_CreatedNameIsFresh ==
    (provision.pc \in {"finally", "returning"} /\ provision.success)
        => ProxyRow(provision.container_name) = NoRow

\* C31: a listing batch whose pending rows meet the unique constraint only through rows
\* of the same (scan, timestamp, title, link), that is through duplicates another batch
\* of the scan has stored meanwhile, does not fail at its commit: it ends done and each of
\* its harvested items is in the table.
C31_DuplicateDroppedSilently ==
    [][\A r \in DOMAIN runs, i \in TaskIds :
          ( /\ sync_scrape_batch_commit(r, i)
            /\ \A row \in runs[r].tasks[i].pending :
                  \A k \in DOMAIN marketplace_posts :
                      ( /\ marketplace_posts[k].scan_id = row.scan_id
                        /\ marketplace_posts[k].timestamp = row.timestamp )
                      => ( /\ marketplace_posts[k].title = row.title
                           /\ marketplace_posts[k].link = row.link ) )
          => /\ runs'[r].tasks[i].st = "done"
             /\ \A ts \in DOMAIN runs[r].tasks[i].posts_data :
                   \E k \in DOMAIN marketplace_posts' :
                       /\ marketplace_posts'[k].scan_id = runs[r].scan_id
                       /\ marketplace_posts'[k].timestamp = ts
                       /\ marketplace_posts'[k].title = runs[r].tasks[i].posts_data[ts].title]_vars

\* C32: while perform_bot_login runs and when its loop has ended, the stored session of
\* every profile whose login did not return a session with a session cookie (the login
\* failed, the profile was skipped for want of a tor_proxy, or the loop has not reached
\* it) is the session the profile had when the handler read the table.
C32_TokenChangedOnlyOnActivation ==
    bot_login.pc \in {"loop", "calling"}
    => \A k \in DOMAIN profiles :
          k \notin bot_login.activated => profiles[k].session = bot_login.before[k]

\* the loop has ended over three profiles that had a session: one was skipped, one
\* failed its login and kept the session, one was activated and has the new session
C32_Witness ==
    /\ bot_login.pc = "loop" /\ bot_login.pos > Len(profiles)
    /\ \E i, j, k \in DOMAIN profiles :
          /\ profiles[i].tor_proxy = NULL /\ profiles[i].session = "session=old"
          /\ profiles[j].tor_proxy # NULL /\ j \notin bot_login.activated
          /\ profiles[j].session = "session=old"
          /\ k \in bot_login.activated /\ bot_login.before[k] = "session=old"
          /\ profiles[k].session = "session=" \o SessionCookie

\* C33: marketplace_posts changes only in the step in which a listing batch ends done,
\* and that step appends every row the batch had pending, so that each item the batch
\* harvested then has its row; a step in which a listing batch ends failed leaves the
\* table as it was.
C33_ListingBatchAllOrNothing ==
    [][ /\ marketplace_posts' # marketplace_posts
           => \E r \in DOMAIN runs : \E i \in DOMAIN runs[r].tasks :
                 /\ runs[r].kind = "listing" /\ runs'[r].phase = "gather"
                 /\ runs[r].tasks[i].st = "running" /\ runs'[r].tasks[i].st = "done"
        /\ \A r \in DOMAIN runs : \A i \in DOMAIN runs[r].tasks :
              (runs[r].kind = "listing" /\ runs'[r].phase = "gather")
              => /\ (runs[r].tasks[i].st # "failed" /\ runs'[r].tasks[i].st = "failed")
                    => marketplace_posts' = marketplace_posts
                 /\ (runs[r].tasks[i].st = "running" /\ runs'[r].tasks[i].st = "done")
                    => /\ Len(marketplace_posts') =
                             Len(marketplace_posts) + Cardinality(runs[r].tasks[i].pending)
                       /\ \A k \in DOMAIN marketplace_posts :
                             marketplace_posts'[k] = marketplace_posts[k]
                       /\ \A row \in runs[r].tasks[i].pending :
                             \E k \in DOMAIN marketplace_posts' : marketplace_posts'[k] = row
                       /\ \A ts \in DOMAIN runs[r].tasks[i].posts_data :
                             \E k \in DOMAIN marketplace_posts' :
                                 /\ marketplace_posts'[k].scan_id = runs[r].scan_id
                                 /\ marketplace_posts'[k].timestamp = ts
                                 /\ marketplace_posts'[k].title =
                                       runs[r].tasks[i].posts_data[ts].title
                                 /\ marketplace_posts'[k].link =
                                       runs[r].tasks[i].posts_data[ts].link ]_vars

\* one batch of a run has committed its three items and another, which had harvested
\* items too, has failed at its commit and left no row
C33_Witness ==
    \E r \in DOMAIN runs :
        /\ runs[r].kind = "listing" /\ runs[r].phase = "gather"
        /\ \E i, j \in DOMAIN runs[r].tasks :
              /\ runs[r].tasks[i].st = "done"
              /\ Cardinality(DOMAIN runs[r].tasks[i].posts_data) = 3
              /\ runs[r].tasks[j].st = "failed"
              /\ Len(marketplace_posts) = 3
              /\ \A k \in DOMAIN marketplace_posts :
                    marketplace_posts[k].title = runs[r].tasks[i].posts_data[1].title

\* C34: every listing scan and every post-detail scan that is Running has a start date
\* and no completion date, and every one that is Completed has a start date and a
\* completion date.
C34_StatusAndDates ==
    /\ \A id \in PostScanIds :
          post_scans[id] # NoRow
          => /\ post_scans[id].status = RUNNING
                => (post_scans[id].start_date # NoDate /\ post_scans[id].completion_date = NoDate)
             /\ post_scans[id].status = COMPLETED
                => (post_scans[id].start_date # NoDate /\ post_scans[id].completion_date # NoDate)
    /\ \A id \in DetailScanIds :
          detail_scans[id] # NoRow
          => /\ detail_scans[id].status = RUNNING
                => (detail_scans[id].start_date # NoDate
                    /\ detail_scans[id].completion_date = NoDate)
             /\ detail_scans[id].status = COMPLETED
                => (detail_scans[id].start_date # NoDate
                    /\ detail_scans[id].completion_date # NoDate)

\* a listing scan that had been Completed was started again: it is Running, its
\* completion date is null again and its start date is the time of the second start
C34_Witness ==
    \E r1, r2 \in DOMAIN runs :
        /\ r1 < r2
        /\ runs[r1].kind = "listing" /\ runs[r2].kind = "listing"
        /\ runs[r1].scan_id = runs[r2].scan_id
        /\ runs[r1].phase = "done" /\ runs[r2].phase = "gather"
        /\ post_scans[runs[r2].scan_id] # NoRow
        /\ post_scans[runs[r2].scan_id].status = RUNNING
        /\ post_scans[runs[r2].scan_id].completion_date = NoDate
        /\ post_scans[runs[r2].scan_id].start_date = now

\* C35: a listing scan that is Running is Completed or Stopped at some later time, when
\* the process keeps running, every batch ends and the scan is not deleted.
C35_RunningScanIsFinalized ==
    \A id \in PostScanIds :
        (post_scans[id] # NoRow /\ post_scans[id].status = RUNNING)
        ~> (post_scans[id] # NoRow /\ post_scans[id].status \in {COMPLETED, STOPPED})

\* C36: when the run of a post-detail scan writes the status Completed, every row of
\* marketplace_posts of the scan's source listing scan has a row in
\* marketplace_post_details with the scan's id and the post's timestamp.
C36_CompletedMeansAllEnriched ==
    [][\A r \in DOMAIN runs :
          ( /\ scrape_post_batches_finalize(r)
            /\ detail_scans'[runs[r].scan_id] # NoRow
            /\ detail_scans'[runs[r].scan_id].status = COMPLETED )
          => \A src \in PostScanByName(detail_scans[runs[r].scan_id].source_scan_name) :
                \A k \in DOMAIN marketplace_posts :
                    marketplace_posts[k].scan_id = src
                    => \E j \in DOMAIN post_details :
                          /\ post_details[j].scan_id = runs[r].scan_id
                          /\ post_details[j].timestamp = marketplace_posts[k].timestamp]_vars

\* C37: a listing batch each of whose pending rows differs from every stored row of its
\* scan in the timestamp, the title or the link commits: it ends done and each of these
\* rows is in the table.
C37_DistinctKeysBothStored ==
    [][\A r \in DOMAIN runs, i \in TaskIds :
          ( /\ sync_scrape_batch_commit(r, i)
            /\ \A row \in runs[r].tasks[i].pending :
                  \A k \in DOMAIN marketplace_posts :
                      marketplace_posts[k].scan_id = row.scan_id
                      => \/ marketplace_posts[k].timestamp # row.timestamp
                         \/ marketplace_posts[k].title # row.title
                         \/ marketplace_posts[k].link # row.link )
          => /\ runs'[r].tasks[i].st = "done"
             /\ \A row \in runs[r].tasks[i].pending :
                   \E k \in DOMAIN marketplace_posts' : marketplace_posts'[k] = row]_vars

\* C38: every row of marketplace_posts has the id of a listing scan that exists and every
\* row of marketplace_post_details the id of a post-detail scan that exists.
C38_RowsReferenceExistingScan ==
    /\ \A k \in DOMAIN marketplace_posts : post_scans[marketplace_posts[k].scan_id] # NoRow
    /\ \A k \in DOMAIN post_details : detail_scans[post_details[k].scan_id] # NoRow

\* C39: of the background runs of one listing scan, and of those of one post-detail scan,
\* at most one is in flight, whatever start requests arrive (none of the scans being
\* deleted).
C39_OneRunInFlightPerScan ==
    \A r1, r2 \in DOMAIN runs :
        ( /\ runs[r1].kind = runs[r2].kind
          /\ runs[r1].scan_id = runs[r2].scan_id
          /\ runs[r1].phase = "gather" /\ runs[r2].phase = "gather" )
        => r1 = r2

\* a listing scan whose first run has finalized was started again, and a further start
\* request, arriving while the second run has a batch executing, was answered 400
C39_Witness ==
    \E r1, r2 \in DOMAIN runs :
        /\ r1 < r2
        /\ runs[r1].kind = "listing" /\ runs[r2].kind = "listing"
        /\ runs[r1].scan_id = runs[r2].scan_id
        /\ runs[r1].phase = "done" /\ runs[r2].phase = "gather"
        /\ Executing(runs[r2]) # {}
        /\ response = Resp("marketplace_start_post_scan", 400, "Scan is already running")

====
